---- MODULE Spec2Model ----
(***************************************************************************)
(* Clip-generation orchestrator (electron/clipper.ts) on top of the JSON   *)
(* record store (VideoDatabase, db.ts), with the startup recovery of       *)
(* records left IN_PROGRESS by a terminated process.                       *)
(*                                                                         *)
(* Persistent state: the contents of db.json (db) and the per-video        *)
(* artifact directory (disk).  Volatile state: the position of each        *)
(* in-flight generateClips/regenerateClips call (job).  History: the calls *)
(* made on each video id with the tools each one invoked (calls), and what *)
(* the last ingestion, listing, probing or deletion request was given and  *)
(* answered (reply).                                                       *)
(***************************************************************************)
EXTENDS Integers, Sequences, FiniteSets, TLC

VARIABLES db, disk, job, calls, up, crashes, nextId, clock, reply

vars == <<db, disk, job, calls, up, crashes, nextId, clock, reply>>

(* ------------------------------ bounds -------------------------------- *)

MaxVideos == 2
MaxChunks == 2
MaxCalls == 2
MaxCrashes == 1
MaxElapsed == 1

(* ------------------------- program constants -------------------------- *)

\* '-segment_time', '120'; startTime = i * 120; metadata.duration || 120
SegmentTime == 120

NULL == "null"

Ids == 1..MaxVideos
\* clip_000.mp4, clip_001.mp4, ... : the segment muxer's %03d sequence
Chunks == 0..(MaxChunks - 1)
\* format.duration values ffprobe may report for a chunk (seconds)
ProbedDurations == {45}
\* outcomes of one getClipMetadata call: ffprobe failed (the catch branch:
\* no duration, written 0, no fps, no resolution), or it reported a duration
ProbeResults ==
  {[ok |-> FALSE, duration |-> 0]} \cup
  {[ok |-> TRUE, duration |-> d] : d \in ProbedDurations}
\* parseFloat(totalTime) of a run that waited for at least one ffmpeg
ElapsedTimes == 1..MaxElapsed

FfmpegFailed == "ffmpeg failed"
Interrupted == "Clipping was interrupted (app closed or crashed). Please retry."
\* the message of an exception thrown by fs.unlinkSync (EPERM, EBUSY, ...)
UnlinkFailed == "unlink failed"
PreparedPath == "prepared.mp4"
NotFound == "Video not found"
\* updateVideo's `Video ${videoId} not found`
UpdateNotFound == "Video <videoId> not found"

SyncPcs == {"regen_update", "gen_entry", "clean", "mkdir", "prep_done", "catch_update"}

(* ------------------------------ paths --------------------------------- *)

\* a path is the sequence of its characters
DefaultSource == <<"a", ".", "m", "p", "4">>

\* the source paths handed to videos:createFromFile
SourcePaths ==
  {DefaultSource,
   <<"a", ".", "M", "P", "4">>,
   <<"a", ".", "M", "p", "4">>,
   <<"a", ".", "m", "o", "v">>,
   <<"a", ".", "m", "p", "4", ".", "m", "o", "v">>,
   <<"a", ".", "m", "p", "4", "/", "b">>,
   <<"a", ".", "m", "p", "4", "v">>,
   <<"a", "m", "p", "4">>,
   <<".", "m", "p", "4">>,
   <<"a", ".">>}

\* String.prototype.toLowerCase on the letters that occur in SourcePaths
toLowerCase(s) ==
  LET lower == ("A" :> "a") @@ ("M" :> "m") @@ ("O" :> "o") @@ ("P" :> "p")
               @@ ("V" :> "v")
  IN [i \in DOMAIN s |-> IF s[i] \in DOMAIN lower THEN lower[s[i]] ELSE s[i]]

\* path.basename: what follows the last separator
basename(p) ==
  LET seps == {i \in DOMAIN p : p[i] = "/"} IN
    IF seps = {} THEN p
    ELSE SubSeq(p, (CHOOSE i \in seps : \A j \in seps : j <= i) + 1, Len(p))

\* path.extname: from the last "." of the basename to its end; empty when
\* there is no "." or the only one is the first character
extname(p) ==
  LET b == basename(p)
      dots == {i \in DOMAIN b : b[i] = "."}
      last == CHOOSE i \in dots : \A j \in dots : j <= i
  IN IF dots = {} \/ b = <<".", ".">> THEN <<>>
     ELSE IF last = 1 THEN <<>>
     ELSE SubSeq(b, last, Len(b))

InvalidFileType == "Invalid file type: <ext>. Only .mp4 files are supported."

(* --------------------------- record store ----------------------------- *)

\* the videoRecord literal of videos:createFromFile: it has no
\* preparedVideoPath and no lastClipGenerationTime property
NewRecord(id, t, name) ==
  [id |-> id, originalFilename |-> name, createdAt |-> t, status |-> "PENDING",
   metadata |-> {}, clipState |-> "NOT_STARTED", lastError |-> NULL,
   clips |-> <<>>, preparedVideoPath |-> NULL, lastClipGenerationTime |-> {},
   absent |-> {"preparedVideoPath", "lastClipGenerationTime"}]

\* readDb's map defaulting clips only
BackfillClipsOnly(v) ==
  [v EXCEPT
     !.clips = IF "clips" \in v.absent THEN <<>> ELSE @,
     !.absent = @ \ {"clips"}]

\* readDb's map over db.videos: x || default for the three newer fields
Backfill(v) ==
  [v EXCEPT
     !.clips = IF "clips" \in v.absent THEN <<>> ELSE @,
     !.preparedVideoPath = IF "preparedVideoPath" \in v.absent THEN NULL ELSE @,
     !.lastClipGenerationTime =
        IF "lastClipGenerationTime" \in v.absent \/ @ = {0} THEN {} ELSE @,
     !.absent = @ \ {"clips", "preparedVideoPath", "lastClipGenerationTime"}]

\* the record at which a file's JSON text was cut short
Truncated == [NewRecord(0, 0, "") EXCEPT !.status = "TRUNCATED"]

\* a JSON text cut short after k complete records
torn(d, k) == Append(SubSeq(d, 1, k), Truncated)

\* JSON.parse(content) does not throw
parses(d) == \A i \in DOMAIN d : d[i] # Truncated

\* readDb: the parsed and backfilled videos, or { videos: [] } from its catch
readDb(d) == IF parses(d) THEN [i \in DOMAIN d |-> Backfill(d[i])] ELSE <<>>

\* a writeDb of one writeFileSync on dbPath itself
writeDbInPlace(d) ==
  << [op |-> "writeFile", path |-> "db", from |-> "db", data |-> d] >>

\* writeDb as its file-system calls: writeFileSync(tmpPath, JSON.stringify(db))
\* and renameSync(tmpPath, dbPath)
writeDb(d) ==
  << [op |-> "writeFile", path |-> "tmp", from |-> "tmp", data |-> d],
     [op |-> "rename", path |-> "db", from |-> "tmp", data |-> <<>>] >>

\* a file-system call carried out in full on the files db.json and db.json.tmp
applyOp(files, o) ==
  IF o.op = "writeFile" THEN [files EXCEPT ![o.path] = o.data]
  ELSE [files EXCEPT ![o.path] = files[o.from]]

\* a file-system call cut by the end of the process: a writeFileSync leaves
\* the first k records of its text, a renameSync either happened or did not
cutOp(files, o, k) ==
  IF o.op = "writeFile" THEN [files EXCEPT ![o.path] = torn(o.data, k)]
  ELSE files

RECURSIVE applyOps(_, _)
applyOps(files, ops) ==
  IF ops = <<>> THEN files ELSE applyOps(applyOp(files, Head(ops)), Tail(ops))

\* db.json after a process that was committing post over d ended when done
\* of writeDb's calls were complete; cut says whether the next one had begun,
\* and k how far it got
crashedWrite(d, post, done, cut, k) ==
  LET ops == writeDb(post)
      files == applyOps([db |-> d, tmp |-> <<>>], SubSeq(ops, 1, done))
  IN IF cut /\ done < Len(ops)
     THEN cutOp(files, ops[done + 1], k).db
     ELSE files.db

\* findIndex with the comparison negated (v.id !== videoId)
findIndexNot(d, id) ==
  IF \E i \in DOMAIN d : d[i].id # id
  THEN CHOOSE i \in DOMAIN d : d[i].id # id /\ \A j \in 1..(i - 1) : d[j].id = id
  ELSE 0

\* Array.prototype.findIndex, 1-based; 0 when no element matches
findIndex(d, id) ==
  IF \E i \in DOMAIN d : d[i].id = id
  THEN CHOOSE i \in DOMAIN d : d[i].id = id /\ \A j \in 1..(i - 1) : d[j].id # id
  ELSE 0

\* getVideo: db.videos.find(v => v.id === videoId) || null, as the test for
\* null (HasVideo) and the record found
HasVideo(d, id) == \E i \in DOMAIN d : readDb(d)[i].id = id

getVideo(d, id) ==
  LET r == readDb(d)
  IN r[CHOOSE i \in DOMAIN r : r[i].id = id /\ \A j \in 1..(i - 1) : r[j].id # id]

\* a record rebuilt from the updates alone, the other fields at their defaults
MergeReplaces(v, updates) ==
  [f \in DOMAIN v |->
     IF f \in DOMAIN updates THEN updates[f]
     ELSE IF f = "absent" THEN {}
     ELSE IF f \in {"id", "originalFilename", "createdAt"} THEN v[f]
     ELSE NewRecord(v.id, v.createdAt, v.originalFilename)[f]]

\* { ...db.videos[index], ...updates }
Merge(v, updates) ==
  [f \in DOMAIN v |->
     IF f \in DOMAIN updates THEN updates[f]
     ELSE IF f = "absent" THEN v.absent \ DOMAIN updates
     ELSE v[f]]

\* updateVideo rebuilding the array without the records after index
updateVideoDropsTail(d, id, updates) ==
  LET r == readDb(d)
      i == findIndex(r, id)
  IN IF i = 0 THEN [ok |-> FALSE, db |-> d]
     ELSE [ok |-> TRUE, db |-> Append(SubSeq(r, 1, i - 1), Merge(r[i], updates))]

\* updateVideo calling writeDb(db) before it throws
updateVideoWritesOnMiss(d, id, updates) ==
  LET r == readDb(d)
      i == findIndex(r, id)
  IN IF i = 0 THEN [ok |-> FALSE, db |-> r]
     ELSE [ok |-> TRUE, db |-> [r EXCEPT ![i] = Merge(r[i], updates)]]

\* updateVideo adding a record made of the updates when the id is not found
updateVideoUpserts(d, id, updates) ==
  LET r == readDb(d)
      i == findIndex(r, id)
  IN IF i = 0
     THEN [ok |-> TRUE,
           db |-> Append(r, Merge(NewRecord(id, 0, DefaultSource), updates))]
     ELSE [ok |-> TRUE, db |-> [r EXCEPT ![i] = Merge(r[i], updates)]]

\* the outcome of updateVideo: ok = FALSE when it throws 'Video not found'
updateVideo(d, id, updates) ==
  LET r == readDb(d)
      i == findIndex(r, id)
  IN IF i = 0 THEN [ok |-> FALSE, db |-> d]
     ELSE [ok |-> TRUE, db |-> [r EXCEPT ![i] = Merge(r[i], updates)]]

createVideo(d, v) == Append(readDb(d), v)

\* deleteVideo dropping the record and every record after it
deleteVideoTruncates(d, id) ==
  LET i == findIndex(d, id) IN
    IF i = 0 THEN readDb(d) ELSE SubSeq(readDb(d), 1, i - 1)

\* deleteVideo: db.videos.filter(v => v.id !== videoId), written back
deleteVideo(d, id) ==
  LET Keep(v) == v.id # id IN SelectSeq(readDb(d), Keep)

(* ------------------------------ disk ---------------------------------- *)

NoDisk == [dir |-> FALSE, original |-> FALSE, clips |-> {}, prepared |-> "absent"]

\* videoDir and clipsDir made, the source file copied to original.mp4
NewDisk == [dir |-> TRUE, original |-> TRUE, clips |-> {}, prepared |-> "absent"]

deleteClipsFromDisk(dk) == IF ~dk.dir THEN dk ELSE [dk EXCEPT !.clips = {}]

\* video.clips.every(clip => fs.existsSync(path.join(clipsDir, clip.filename)))
allExist(video, dk) ==
  \A k \in DOMAIN video.clips : dk.dir /\ video.clips[k].filename \in dk.clips

\* the idempotency check without the look at the disk
canSkipTrustsRecord(video, dk) ==
  video.clipState = "DONE" /\ Len(video.clips) > 0

\* the idempotency check of generateClips
canSkip(video, dk) ==
  video.clipState = "DONE" /\ Len(video.clips) > 0 /\ allExist(video, dk)

\* readdirSync(clipsDir).filter(.mp4).sort()
RECURSIVE SortedSeq(_)
SortedSeq(S) ==
  IF S = {} THEN <<>>
  ELSE LET m == CHOOSE x \in S : \A y \in S : x <= y
       IN <<m>> \o SortedSeq(S \ {m})

(* ------------------------------ calls --------------------------------- *)

IdleJob == [pc |-> "idle", precise |-> FALSE, files |-> <<>>, clips |-> <<>>]

\* the history record of a call: what it was called on (the record's
\* clipState, whether it listed outputs, whether all of them were on disk,
\* whether the clips directory held a chunk file),
\* how it ended, the tools it invoked, whether a review-status update was
\* handled while it was in flight, and what it returned
NewCall(op, precise, id) ==
  [op |-> op, precise |-> precise,
   preState |-> IF HasVideo(db, id) THEN getVideo(db, id).clipState ELSE "ABSENT",
   preListed |-> HasVideo(db, id) /\ getVideo(db, id).clips # <<>>,
   preExist |-> HasVideo(db, id) /\ allExist(getVideo(db, id), disk[id]),
   preFiles |-> disk[id].clips # {},
   outcome |-> "running", error |-> NULL,
   prep |-> 0, seg |-> 0, probe |-> 0, reviewed |-> FALSE,
   ret |-> <<>>, elapsed |-> {}]

\* only the latest call's return value is kept
Forget(cs) == [k \in DOMAIN cs |-> [cs[k] EXCEPT !.ret = <<>>, !.elapsed = {}]]

CallsMade == LET RECURSIVE Sum(_)
                 Sum(S) == IF S = {} THEN 0
                           ELSE LET x == CHOOSE x \in S : TRUE
                                IN Len(calls[x]) + Sum(S \ {x})
             IN Sum(Ids)

Last(s) == s[Len(s)]
WithLast(s, c) == [s EXCEPT ![Len(s)] = c]

\* no other call is inside a synchronous stretch of code (run to completion)
CanRun(id) == up /\ \A o \in Ids \ {id} : job[o].pc \notin SyncPcs
Quiescent == up /\ \A o \in Ids : job[o].pc \notin SyncPcs

SetCall(id, c) == calls' = [calls EXCEPT ![id] = WithLast(@, c)]
Cur(id) == Last(calls[id])

\* what the renderer was last answered by a handler that is no clip job:
\* the channel, the argument, resolved or rejected, the error, the value
NoReply ==
  [channel |-> "none", arg |-> <<>>, outcome |-> "none", error |-> NULL,
   value |-> {}]

Init ==
  /\ db = <<>>
  /\ disk = [id \in Ids |-> NoDisk]
  /\ job = [id \in Ids |-> IdleJob]
  /\ calls = [id \in Ids |-> <<>>]
  /\ up = TRUE
  /\ crashes = 0
  /\ nextId = 1
  /\ clock = 0
  /\ reply = NoReply

(* ----------------------------- ingestion ------------------------------ *)

\* videos:createFromFile creating the directories before it validates the
\* extension
CreateFromFileMkdirFirst(sourcePath, tick) ==
  /\ Quiescent
  /\ nextId <= MaxVideos
  /\ nextId = 1 => tick = 1
  /\ IF toLowerCase(extname(sourcePath)) # <<".", "m", "p", "4">>
     THEN /\ reply' = [channel |-> "videos:createFromFile", arg |-> sourcePath,
                       outcome |-> "rejected", error |-> InvalidFileType,
                       value |-> {}]
          /\ disk' = [disk EXCEPT ![nextId] = [NewDisk EXCEPT !.original = FALSE]]
          /\ UNCHANGED <<db, nextId, clock>>
     ELSE /\ db' = createVideo(db, NewRecord(nextId, clock + tick,
                                             basename(sourcePath)))
          /\ disk' = [disk EXCEPT ![nextId] = NewDisk]
          /\ nextId' = nextId + 1
          /\ clock' = clock + tick
          /\ reply' = [channel |-> "videos:createFromFile", arg |-> sourcePath,
                       outcome |-> "resolved", error |-> NULL,
                       value |-> {nextId}]
  /\ UNCHANGED <<job, calls, up, crashes>>

\* videos:createFromFile: the extension of sourcePath is validated; then
\* mkdir videoDir and clipsDir, copy the file, createVideo.  randomUUID is a
\* fresh id; createdAt is the time of the call, and two creations may fall
\* in the same millisecond (tick = 0)
CreateFromFile(sourcePath, tick) ==
  /\ Quiescent
  /\ IF toLowerCase(extname(sourcePath)) # <<".", "m", "p", "4">>
     THEN /\ reply' = [channel |-> "videos:createFromFile", arg |-> sourcePath,
                       outcome |-> "rejected", error |-> InvalidFileType,
                       value |-> {}]
          /\ UNCHANGED <<db, disk, nextId, clock>>
     ELSE /\ nextId <= MaxVideos
          /\ nextId = 1 => tick = 1
          /\ db' = createVideo(db, NewRecord(nextId, clock + tick,
                                             basename(sourcePath)))
          /\ disk' = [disk EXCEPT ![nextId] = NewDisk]
          /\ nextId' = nextId + 1
          /\ clock' = clock + tick
          /\ reply' = [channel |-> "videos:createFromFile", arg |-> sourcePath,
                       outcome |-> "resolved", error |-> NULL,
                       value |-> {nextId}]
  /\ UNCHANGED <<job, calls, up, crashes>>

(* --------------------------- generateClips ---------------------------- *)

\* generateClips without its updateVideo(IN_PROGRESS) before the tools
generateEntryNoCommit(id, precise, cs) ==
  LET c == Last(cs)
      Record(x) == calls' = [calls EXCEPT ![id] = WithLast(cs, x)]
  IN
  IF ~HasVideo(db, id)
  THEN /\ Record([c EXCEPT !.outcome = "raised", !.error = NotFound])
       /\ job' = [job EXCEPT ![id] = IdleJob]
       /\ UNCHANGED <<db, disk>>
  ELSE LET video == getVideo(db, id) IN
       IF canSkip(video, disk[id])
       THEN /\ Record([c EXCEPT !.outcome = "returned", !.ret = video.clips,
                                !.elapsed = {0}])
            /\ job' = [job EXCEPT ![id] = IdleJob]
            /\ UNCHANGED <<db, disk>>
       ELSE /\ job' = [job EXCEPT ![id] = [IdleJob EXCEPT !.pc = "clean",
                                                          !.precise = precise]]
            /\ Record(c)
            /\ UNCHANGED <<db, disk>>

\* generateClips with the clean-slate deletion moved before the IN_PROGRESS
\* commit
generateEntryCleansFirst(id, precise, cs) ==
  LET c == Last(cs)
      Record(x) == calls' = [calls EXCEPT ![id] = WithLast(cs, x)]
  IN
  IF ~HasVideo(db, id)
  THEN /\ Record([c EXCEPT !.outcome = "raised", !.error = NotFound])
       /\ job' = [job EXCEPT ![id] = IdleJob]
       /\ UNCHANGED <<db, disk>>
  ELSE LET video == getVideo(db, id) IN
       IF canSkip(video, disk[id])
       THEN /\ Record([c EXCEPT !.outcome = "returned", !.ret = video.clips,
                                !.elapsed = {0}])
            /\ job' = [job EXCEPT ![id] = IdleJob]
            /\ UNCHANGED <<db, disk>>
       ELSE /\ disk' = [disk EXCEPT ![id] = deleteClipsFromDisk(@)]
            /\ db' = updateVideo(db, id,
                       [clipState |-> "IN_PROGRESS", lastError |-> NULL]).db
            /\ job' = [job EXCEPT ![id] = [IdleJob EXCEPT !.pc = "clean",
                                                          !.precise = precise]]
            /\ Record(c)

\* generateClips from its first line to the IN_PROGRESS commit; cs is the
\* history of the calls on id, the current call last
generateEntry(id, precise, cs) ==
  LET c == Last(cs)
      Record(x) == calls' = [calls EXCEPT ![id] = WithLast(cs, x)]
  IN
  IF ~HasVideo(db, id)
  THEN /\ Record([c EXCEPT !.outcome = "raised", !.error = NotFound])
       /\ job' = [job EXCEPT ![id] = IdleJob]
       /\ UNCHANGED <<db, disk>>
  ELSE LET video == getVideo(db, id) IN
       IF canSkip(video, disk[id])
       THEN /\ Record([c EXCEPT !.outcome = "returned", !.ret = video.clips,
                                !.elapsed = {0}])
            /\ job' = [job EXCEPT ![id] = IdleJob]
            /\ UNCHANGED <<db, disk>>
       ELSE /\ db' = updateVideo(db, id,
                       [clipState |-> "IN_PROGRESS", lastError |-> NULL]).db
            /\ job' = [job EXCEPT ![id] = [IdleJob EXCEPT !.pc = "clean",
                                                          !.precise = precise]]
            /\ Record(c)
            /\ UNCHANGED disk

\* the catch block without its deleteClipsFromDisk
catchKeepsFiles(id, c) ==
  /\ job' = [job EXCEPT ![id].pc = "catch_update"]
  /\ SetCall(id, c)
  /\ UNCHANGED <<db, disk>>

\* the catch block up to deleteClipsFromDisk; its updateVideo is CatchUpdate
catch(id, c) ==
  /\ disk' = [disk EXCEPT ![id] = deleteClipsFromDisk(@)]
  /\ job' = [job EXCEPT ![id].pc = "catch_update"]
  /\ SetCall(id, c)
  /\ UNCHANGED db

\* the last updateVideo of the try block committing the state without the
\* clips
commitStateOnly(id, clips, t, c) ==
  LET r == updateVideo(db, id,
             [clipState |-> "DONE", lastError |-> NULL,
              lastClipGenerationTime |-> {t}])
  IN IF r.ok
     THEN /\ db' = r.db
          /\ job' = [job EXCEPT ![id] = IdleJob]
          /\ SetCall(id, [c EXCEPT !.outcome = "returned", !.ret = clips,
                                   !.elapsed = {t}])
          /\ UNCHANGED disk
     ELSE catch(id, c)

\* the last updateVideo of the try block writing back the review status
\* that a fresh record has
commitResetsStatus(id, clips, t, c) ==
  LET r == updateVideo(db, id,
             [clips |-> clips, clipState |-> "DONE", lastError |-> NULL,
              lastClipGenerationTime |-> {t}, status |-> "PENDING"])
  IN IF r.ok
     THEN /\ db' = r.db
          /\ job' = [job EXCEPT ![id] = IdleJob]
          /\ SetCall(id, [c EXCEPT !.outcome = "returned", !.ret = clips,
                                   !.elapsed = {t}])
          /\ UNCHANGED disk
     ELSE catch(id, c)

\* the last updateVideo of the try block and the return
commit(id, clips, t, c) ==
  LET r == updateVideo(db, id,
             [clips |-> clips, clipState |-> "DONE", lastError |-> NULL,
              lastClipGenerationTime |-> {t}])
  IN IF r.ok
     THEN /\ db' = r.db
          /\ job' = [job EXCEPT ![id] = IdleJob]
          /\ SetCall(id, [c EXCEPT !.outcome = "returned", !.ret = clips,
                                   !.elapsed = {t}])
          /\ UNCHANGED disk
     ELSE catch(id, c)

\* the loop body with startTime = i * clipDuration
clipRecordOwnDuration(filename, i, metadata) ==
  LET clipDuration == IF metadata.ok /\ metadata.duration # 0
                      THEN metadata.duration ELSE SegmentTime
      startTime == i * clipDuration
  IN [filename |-> filename, startTime |-> startTime,
      endTime |-> startTime + clipDuration, duration |-> clipDuration,
      hasStreamInfo |-> metadata.ok]

\* the loop body storing the nominal duration whatever the probe reported
clipRecordNominal(filename, i, metadata) ==
  LET startTime == i * SegmentTime
  IN [filename |-> filename, startTime |-> startTime,
      endTime |-> startTime + SegmentTime, duration |-> SegmentTime,
      hasStreamInfo |-> metadata.ok]

\* one iteration of the for loop over clipFiles, given getClipMetadata's result
clipRecord(filename, i, metadata) ==
  LET clipDuration == IF metadata.ok /\ metadata.duration # 0
                      THEN metadata.duration ELSE SegmentTime
      startTime == i * SegmentTime
  IN [filename |-> filename, startTime |-> startTime,
      endTime |-> startTime + clipDuration, duration |-> clipDuration,
      hasStreamInfo |-> metadata.ok]

GenerateCall(id, precise) ==
  /\ Quiescent
  /\ id < nextId
  /\ job[id].pc = "idle"
  /\ CallsMade < MaxCalls
  /\ generateEntry(id, precise,
                   Append(Forget(calls[id]), NewCall("generate", precise, id)))
  /\ UNCHANGED <<up, crashes, nextId, clock, reply>>

\* generateClips without its clean-slate deleteClipsFromDisk
CleanSlateSkipped(id) ==
  /\ CanRun(id)
  /\ job[id].pc = "clean"
  /\ job' = [job EXCEPT ![id].pc = "mkdir"]
  /\ UNCHANGED <<db, disk, calls, up, crashes, nextId, clock, reply>>

\* deleteClipsFromDisk(clipsDir) after the IN_PROGRESS commit
CleanSlate(id) ==
  /\ CanRun(id)
  /\ job[id].pc = "clean"
  /\ disk' = [disk EXCEPT ![id] = deleteClipsFromDisk(@)]
  /\ job' = [job EXCEPT ![id].pc = "mkdir"]
  /\ UNCHANGED <<db, calls, up, crashes, nextId, clock, reply>>

\* precise mode preparing on every run, without the existsSync(preparedPath)
EnsureDirAndPrepare(id) ==
  /\ CanRun(id)
  /\ job[id].pc = "mkdir"
  /\ disk' = [disk EXCEPT ![id].dir = TRUE]
  /\ IF job[id].precise
     THEN /\ job' = [job EXCEPT ![id].pc = "preparing"]
          /\ SetCall(id, [Cur(id) EXCEPT !.prep = @ + 1])
     ELSE /\ job' = [job EXCEPT ![id].pc = "segmenting"]
          /\ SetCall(id, [Cur(id) EXCEPT !.seg = @ + 1])
  /\ UNCHANGED <<db, up, crashes, nextId, clock, reply>>

\* mkdirSync(clipsDir) if it is missing, then the first tool of the try
\* block is launched: ffmpeg preparation (precise mode, no prepared.mp4 on
\* disk) or ffmpeg segmentation
EnsureDirAndLaunch(id) ==
  /\ CanRun(id)
  /\ job[id].pc = "mkdir"
  /\ disk' = [disk EXCEPT ![id].dir = TRUE]
  /\ IF job[id].precise /\ disk[id].prepared = "absent"
     THEN /\ job' = [job EXCEPT ![id].pc = "preparing"]
          /\ SetCall(id, [Cur(id) EXCEPT !.prep = @ + 1])
     ELSE /\ job' = [job EXCEPT ![id].pc = "segmenting"]
          /\ SetCall(id, [Cur(id) EXCEPT !.seg = @ + 1])
  /\ UNCHANGED <<db, up, crashes, nextId, clock, reply>>

\* the preparation ffmpeg creates its output file and writes to it
PrepProgress(id) ==
  /\ up
  /\ job[id].pc = "preparing"
  /\ disk[id].dir
  /\ disk[id].prepared = "absent"
  /\ disk' = [disk EXCEPT ![id].prepared = "partial"]
  /\ UNCHANGED <<db, job, calls, up, crashes, nextId, clock, reply>>

\* the preparation ffmpeg exits 0: createPreparedVideo resolves
PrepSucceed(id) ==
  /\ CanRun(id)
  /\ job[id].pc = "preparing"
  /\ disk[id].dir
  /\ disk' = [disk EXCEPT ![id].prepared = "complete"]
  /\ job' = [job EXCEPT ![id].pc = "prep_done"]
  /\ UNCHANGED <<db, calls, up, crashes, nextId, clock, reply>>

\* the preparation ffmpeg fails (spawn error or non-zero exit): the catch
\* block starts; whatever ffmpeg wrote to prepared.mp4 stays
PrepFail(id) ==
  /\ CanRun(id)
  /\ job[id].pc = "preparing"
  /\ catch(id, Cur(id))
  /\ UNCHANGED <<up, crashes, nextId, clock, reply>>

\* updateVideo(preparedVideoPath) and the launch of the segmentation ffmpeg
PrepCommit(id) ==
  /\ CanRun(id)
  /\ job[id].pc = "prep_done"
  /\ LET r == updateVideo(db, id, [preparedVideoPath |-> PreparedPath]) IN
       IF r.ok
       THEN /\ db' = r.db
            /\ job' = [job EXCEPT ![id].pc = "segmenting"]
            /\ SetCall(id, [Cur(id) EXCEPT !.seg = @ + 1])
            /\ UNCHANGED disk
       ELSE catch(id, Cur(id))
  /\ UNCHANGED <<up, crashes, nextId, clock, reply>>

\* the segmentation ffmpeg writes its next chunk file clip_%03d.mp4
SegWrite(id) ==
  /\ up
  /\ job[id].pc = "segmenting"
  /\ disk[id].dir
  /\ Cardinality(disk[id].clips) < MaxChunks
  /\ disk' = [disk EXCEPT ![id].clips = @ \cup {Cardinality(@)}]
  /\ UNCHANGED <<db, job, calls, up, crashes, nextId, clock, reply>>

\* the segmentation ffmpeg exits 0: the directory is scanned; with no chunk
\* file the loop is skipped and the record is committed at once, otherwise
\* the first getClipMetadata is awaited
SegSucceed(id, t) ==
  /\ CanRun(id)
  /\ job[id].pc = "segmenting"
  /\ IF ~disk[id].dir
     THEN catch(id, Cur(id))
     ELSE LET clipFiles == SortedSeq(disk[id].clips) IN
          IF clipFiles = <<>>
          THEN commit(id, <<>>, t, Cur(id))
          ELSE /\ job' = [job EXCEPT ![id].pc = "probing", ![id].files = clipFiles]
               /\ SetCall(id, [Cur(id) EXCEPT !.probe = @ + 1])
               /\ UNCHANGED <<db, disk>>
  /\ UNCHANGED <<up, crashes, nextId, clock, reply>>

\* the segmentation ffmpeg fails: the catch block starts
SegFail(id) ==
  /\ CanRun(id)
  /\ job[id].pc = "segmenting"
  /\ catch(id, Cur(id))
  /\ UNCHANGED <<up, crashes, nextId, clock, reply>>

\* getClipMetadata settles for clipFiles[i]: the clip is pushed and either
\* the next probe is awaited or the record is committed.  statSync throws
\* when the file is gone, which getClipMetadata does not catch
ProbeReturn(id, metadata, t) ==
  /\ CanRun(id)
  /\ job[id].pc = "probing"
  /\ LET i == Len(job[id].clips)
         filename == job[id].files[i + 1]
         clips == Append(job[id].clips, clipRecord(filename, i, metadata))
     IN IF filename \notin disk[id].clips
        THEN catch(id, Cur(id))
        ELSE IF Len(clips) < Len(job[id].files)
        THEN /\ job' = [job EXCEPT ![id].clips = clips]
             /\ SetCall(id, [Cur(id) EXCEPT !.probe = @ + 1])
             /\ UNCHANGED <<db, disk>>
        ELSE commit(id, clips, t, Cur(id))
  /\ UNCHANGED <<up, crashes, nextId, clock, reply>>

\* the catch block's updateVideo without lastError: errorMessage
CatchUpdateNoError(id) ==
  /\ CanRun(id)
  /\ job[id].pc = "catch_update"
  /\ LET r == updateVideo(db, id, [clipState |-> "FAILED", clips |-> <<>>])
     IN /\ db' = r.db
        /\ SetCall(id, [Cur(id) EXCEPT !.outcome = "raised",
                          !.error = IF r.ok THEN FfmpegFailed ELSE NotFound])
  /\ job' = [job EXCEPT ![id] = IdleJob]
  /\ UNCHANGED <<disk, up, crashes, nextId, clock, reply>>

\* the catch block's updateVideo resetting lastClipGenerationTime as well
CatchUpdateClearsTime(id) ==
  /\ CanRun(id)
  /\ job[id].pc = "catch_update"
  /\ LET r == updateVideo(db, id,
               [clipState |-> "FAILED", lastError |-> FfmpegFailed, clips |-> <<>>,
                lastClipGenerationTime |-> {}])
     IN /\ db' = r.db
        /\ SetCall(id, [Cur(id) EXCEPT !.outcome = "raised",
                          !.error = IF r.ok THEN FfmpegFailed ELSE NotFound])
  /\ job' = [job EXCEPT ![id] = IdleJob]
  /\ UNCHANGED <<disk, up, crashes, nextId, clock, reply>>

\* the catch block's updateVideo and its throw; updateVideo itself throws
\* when the record is gone
CatchUpdate(id) ==
  /\ CanRun(id)
  /\ job[id].pc = "catch_update"
  /\ LET r == updateVideo(db, id,
               [clipState |-> "FAILED", lastError |-> FfmpegFailed, clips |-> <<>>])
     IN /\ db' = r.db
        /\ SetCall(id, [Cur(id) EXCEPT !.outcome = "raised",
                          !.error = IF r.ok THEN FfmpegFailed ELSE NotFound])
  /\ job' = [job EXCEPT ![id] = IdleJob]
  /\ UNCHANGED <<disk, up, crashes, nextId, clock, reply>>

(* -------------------------- regenerateClips --------------------------- *)

\* regenerateClips as a plain call of generateClips
RegenerateAsGenerate(id, precise) ==
  /\ Quiescent
  /\ id < nextId
  /\ job[id].pc = "idle"
  /\ CallsMade < MaxCalls
  /\ generateEntry(id, precise,
                   Append(Forget(calls[id]), NewCall("regenerate", precise, id)))
  /\ UNCHANGED <<up, crashes, nextId, clock, reply>>

\* regenerateClips removing prepared.mp4 with the clips
RegenerateCallRemovesPrepared(id, precise) ==
  /\ Quiescent
  /\ id < nextId
  /\ job[id].pc = "idle"
  /\ CallsMade < MaxCalls
  /\ calls' = [calls EXCEPT ![id] =
                 Append(Forget(@), NewCall("regenerate", precise, id))]
  /\ disk' = [disk EXCEPT ![id] = [deleteClipsFromDisk(@) EXCEPT !.prepared = "absent"]]
  /\ job' = [job EXCEPT ![id] = [IdleJob EXCEPT !.pc = "regen_update",
                                                !.precise = precise]]
  /\ UNCHANGED <<db, up, crashes, nextId, clock, reply>>

\* regenerateClips up to deleteClipsFromDisk
RegenerateCall(id, precise) ==
  /\ Quiescent
  /\ id < nextId
  /\ job[id].pc = "idle"
  /\ CallsMade < MaxCalls
  /\ calls' = [calls EXCEPT ![id] =
                 Append(Forget(@), NewCall("regenerate", precise, id))]
  /\ disk' = [disk EXCEPT ![id] = deleteClipsFromDisk(@)]
  /\ job' = [job EXCEPT ![id] = [IdleJob EXCEPT !.pc = "regen_update",
                                                !.precise = precise]]
  /\ UNCHANGED <<db, up, crashes, nextId, clock, reply>>

\* regenerateClips' updateVideo resetting preparedVideoPath as well
RegenerateResetClearsPrepared(id) ==
  /\ CanRun(id)
  /\ job[id].pc = "regen_update"
  /\ LET r == updateVideo(db, id,
               [clipState |-> "NOT_STARTED", clips |-> <<>>, lastError |-> NULL,
                preparedVideoPath |-> NULL])
     IN IF r.ok
        THEN /\ db' = r.db
             /\ job' = [job EXCEPT ![id].pc = "gen_entry"]
             /\ UNCHANGED calls
        ELSE /\ SetCall(id, [Cur(id) EXCEPT !.outcome = "raised", !.error = NotFound])
             /\ job' = [job EXCEPT ![id] = IdleJob]
             /\ UNCHANGED db
  /\ UNCHANGED <<disk, up, crashes, nextId, clock, reply>>

\* regenerateClips' updateVideo(NOT_STARTED, clips: [], lastError: null)
RegenerateReset(id) ==
  /\ CanRun(id)
  /\ job[id].pc = "regen_update"
  /\ LET r == updateVideo(db, id,
               [clipState |-> "NOT_STARTED", clips |-> <<>>, lastError |-> NULL])
     IN IF r.ok
        THEN /\ db' = r.db
             /\ job' = [job EXCEPT ![id].pc = "gen_entry"]
             /\ UNCHANGED calls
        ELSE /\ SetCall(id, [Cur(id) EXCEPT !.outcome = "raised", !.error = NotFound])
             /\ job' = [job EXCEPT ![id] = IdleJob]
             /\ UNCHANGED db
  /\ UNCHANGED <<disk, up, crashes, nextId, clock, reply>>

\* regenerateClips' return generateClips(videoId, db, preciseMode)
RegenerateEnter(id) ==
  /\ CanRun(id)
  /\ job[id].pc = "gen_entry"
  /\ generateEntry(id, job[id].precise, calls[id])
  /\ UNCHANGED <<up, crashes, nextId, clock, reply>>

(* ------------------------ store-only handlers ------------------------- *)

\* videos:updateStatus, handled at any time between two synchronous
\* stretches of the clip jobs
UpdateStatus(id, status) ==
  /\ Quiescent
  /\ LET r == updateVideo(db, id, [status |-> status]) IN
       /\ db' = r.db
       /\ reply' = [channel |-> "videos:updateStatus", arg |-> <<id, status>>,
                    outcome |-> IF r.ok THEN "resolved" ELSE "rejected",
                    error |-> IF r.ok THEN NULL ELSE UpdateNotFound,
                    value |-> {}]
  /\ calls' = IF job[id].pc # "idle"
              THEN [calls EXCEPT ![id] = WithLast(@, [Cur(id) EXCEPT !.reviewed = TRUE])]
              ELSE calls
  /\ UNCHANGED <<disk, job, up, crashes, nextId, clock>>

\* videos:get: the record found, of which the history keeps the clips, or null
GetVideo(id) ==
  /\ Quiescent
  /\ CallsMade < MaxCalls
  /\ calls' = [calls EXCEPT ![id] =
       Append(Forget(@),
              [NewCall("get", FALSE, id) EXCEPT
                 !.outcome = "returned",
                 !.ret = IF HasVideo(db, id) THEN getVideo(db, id).clips ELSE <<>>])]
  /\ UNCHANGED <<db, disk, job, up, crashes, nextId, clock, reply>>

\* the records of video id that a db.json may hold: written by the first
\* version of the store (no clips, preparedVideoPath, lastClipGenerationTime),
\* by videos:createFromFile, or by an updateVideo of this version
PersistedRecords(id) ==
  LET fresh == NewRecord(id, id, DefaultSource)
      first == [fresh EXCEPT !.absent = {"clips", "preparedVideoPath",
                                         "lastClipGenerationTime"}]
      clip == clipRecord(0, 0, [ok |-> TRUE, duration |-> 45])
      done == [fresh EXCEPT !.absent = {}, !.clipState = "DONE",
                            !.clips = <<clip>>, !.lastClipGenerationTime = {1}]
  IN {fresh, first,
      [first EXCEPT !.clipState = "DONE"],
      done,
      [done EXCEPT !.preparedVideoPath = PreparedPath],
      [fresh EXCEPT !.absent = {}, !.clipState = "FAILED",
                    !.lastError = FfmpegFailed]}

PersistedStores ==
  {<<>>} \cup {<<a>> : a \in PersistedRecords(1)}
  \cup {<<a, b>> : a \in PersistedRecords(1), b \in PersistedRecords(2)}

\* the application started on a db.json left by earlier runs
StoreInit ==
  /\ db \in PersistedStores
  /\ disk = [id \in Ids |->
              IF id <= Len(db)
              THEN [dir |-> TRUE, original |-> TRUE,
                    clips |-> {db[id].clips[k].filename : k \in DOMAIN db[id].clips},
                    prepared |-> IF db[id].preparedVideoPath = PreparedPath
                                 THEN "complete" ELSE "absent"]
              ELSE NoDisk]
  /\ job = [id \in Ids |-> IdleJob]
  /\ calls = [id \in Ids |-> <<>>]
  /\ up = TRUE
  /\ crashes = 0
  /\ nextId = Len(db) + 1
  /\ clock = Len(db)
  /\ reply = NoReply

(* ------------------------------ listVideos ---------------------------- *)

\* listVideos sorting by createdAt ascending
RECURSIVE listVideosAscending(_)
listVideosAscending(d) ==
  LET videos == readDb(d) IN
    IF videos = <<>> THEN <<>>
    ELSE LET v == Last(videos)
             sorted == listVideosAscending(SubSeq(videos, 1, Len(videos) - 1))
             before == {k \in DOMAIN sorted : sorted[k].createdAt <= v.createdAt}
         IN SubSeq(sorted, 1, Cardinality(before)) \o <<v>>
            \o SubSeq(sorted, Cardinality(before) + 1, Len(sorted))

\* listVideos: readDb, then Array.prototype.sort with the comparator
\* b.createdAt - a.createdAt, which is stable: records of the same
\* millisecond keep their order in the store.  Nothing is written
RECURSIVE listVideos(_)
listVideos(d) ==
  LET videos == readDb(d) IN
    IF videos = <<>> THEN <<>>
    ELSE LET v == Last(videos)
             sorted == listVideos(SubSeq(videos, 1, Len(videos) - 1))
             before == {k \in DOMAIN sorted : sorted[k].createdAt >= v.createdAt}
         IN SubSeq(sorted, 1, Cardinality(before)) \o <<v>>
            \o SubSeq(sorted, Cardinality(before) + 1, Len(sorted))

\* videos:list
ListVideos ==
  /\ Quiescent
  /\ reply' = [channel |-> "videos:list", arg |-> <<>>, outcome |-> "resolved",
               error |-> NULL, value |-> listVideos(db)]
  /\ UNCHANGED <<db, disk, job, calls, up, crashes, nextId, clock>>

(* --------------------------- extractMetadata -------------------------- *)

\* what ffprobe prints of the video stream, as far as the rotation is taken
\* from it.  An optional property is the empty set when it is missing and
\* the singleton of its value otherwise; side-data rotations are JSON
\* numbers, tags are JSON strings
SideRotations == {-90, 0}
RotateTags == {"0", "90"}

SideDataEntries == {[rotation |-> r] : r \in {{}} \cup {{x} : x \in SideRotations}}

SideDataLists ==
  {<<>>} \cup {<<a>> : a \in SideDataEntries}
  \cup {<<a, b>> : a \in SideDataEntries, b \in SideDataEntries}

VideoStreams ==
  [side_data_list : {{}} \cup {{l} : l \in SideDataLists},
   tags : {{}} \cup {{[rotate |-> t]} : t \in {{}} \cup {{x} : x \in RotateTags}}]

\* the parsed stdout: with a video stream or without one
FfprobeOutputs == {[videoStream |-> {}]} \cup {[videoStream |-> {v}] : v \in VideoStreams}

NoVideoStream == "Failed to extract metadata: No video stream found"

\* the rotation with the side-data number tested for truthiness instead of
\* the string made of it
rotationOfNumber(videoStream) ==
  LET list == IF videoStream.side_data_list = {} THEN <<>>
              ELSE CHOOSE l \in videoStream.side_data_list : TRUE
      found == {i \in DOMAIN list : list[i].rotation # {} /\ list[i].rotation # {0}}
      first == CHOOSE i \in found : \A j \in found : i <= j
      tag == IF videoStream.tags = {} THEN {}
             ELSE (CHOOSE t \in videoStream.tags : TRUE).rotate
  IN IF found # {}
     THEN {ToString(CHOOSE r \in list[first].rotation : TRUE) \o "°"}
     ELSE IF tag # {} /\ tag # {""}
     THEN {(CHOOSE t \in tag : TRUE) \o "°"}
     ELSE {}

\* extractMetadata's rotation: the first side_data_list entry whose rotation
\* is not undefined gives `${rotationData.rotation}°`; when that left no
\* non-empty string and tags.rotate is truthy, `${tags.rotate}°`; otherwise
\* undefined
rotationOf(videoStream) ==
  LET list == IF videoStream.side_data_list = {} THEN <<>>
              ELSE CHOOSE l \in videoStream.side_data_list : TRUE
      found == {i \in DOMAIN list : list[i].rotation # {}}
      first == CHOOSE i \in found : \A j \in found : i <= j
      rotation == IF found = {} THEN {}
                  ELSE {ToString(CHOOSE r \in list[first].rotation : TRUE) \o "°"}
      tag == IF videoStream.tags = {} THEN {}
             ELSE (CHOOSE t \in videoStream.tags : TRUE).rotate
  IN IF (rotation = {} \/ rotation = {""}) /\ tag # {} /\ tag # {""}
     THEN {(CHOOSE t \in tag : TRUE) \o "°"}
     ELSE rotation

\* extractMetadata, given what ffprobe printed: the metadata, of which the
\* rotation is kept, or the error
extractMetadata(data) ==
  IF data.videoStream = {}
  THEN [ok |-> FALSE, metadata |-> {}, error |-> NoVideoStream]
  ELSE [ok |-> TRUE,
        metadata |-> {[rotation |-> rotationOf(CHOOSE v \in data.videoStream : TRUE)]},
        error |-> NULL]

\* videos:extractMetadata: getVideo, extractMetadata(video.originalPath),
\* updateVideo(videoId, { metadata }); data is what ffprobe prints for the
\* file
ExtractMetadata(id, data) ==
  /\ Quiescent
  /\ LET Reply(outcome, error, value) ==
           reply' = [channel |-> "videos:extractMetadata", arg |-> <<id, data>>,
                     outcome |-> outcome, error |-> error, value |-> value]
         m == extractMetadata(data)
     IN IF ~HasVideo(db, id)
        THEN Reply("rejected", NotFound, {}) /\ UNCHANGED db
        ELSE IF ~m.ok
        THEN Reply("rejected", m.error, {}) /\ UNCHANGED db
        ELSE /\ db' = updateVideo(db, id, [metadata |-> m.metadata]).db
             /\ Reply("resolved", NULL, m.metadata)
  /\ UNCHANGED <<disk, job, calls, up, crashes, nextId, clock>>


(* ---------------------------- environment ----------------------------- *)

\* a chunk file of an idle video is removed from outside the application
ExternalDeleteClip(id, f) ==
  /\ up
  /\ job[id].pc = "idle"
  /\ f \in disk[id].clips
  /\ disk' = [disk EXCEPT ![id].clips = @ \ {f}]
  /\ UNCHANGED <<db, job, calls, up, crashes, nextId, clock, reply>>

\* a chunk file is removed from outside the application while a call awaits
\* the probe of a chunk
ExternalDeleteProbed(id, f) ==
  /\ up
  /\ job[id].pc = "probing"
  /\ f \in disk[id].clips
  /\ disk' = [disk EXCEPT ![id].clips = @ \ {f}]
  /\ UNCHANGED <<db, job, calls, up, crashes, nextId, clock, reply>>

\* videos:delete: the record is removed from the store and the video's
\* directory from the disk, whatever the record's state and whether or not
\* there is one; nothing is returned
DeleteEntity(id) ==
  /\ Quiescent
  /\ db' = deleteVideo(db, id)
  /\ disk' = [disk EXCEPT ![id] = NoDisk]
  /\ reply' = [channel |-> "videos:delete", arg |-> <<id>>,
               outcome |-> "resolved", error |-> NULL, value |-> {}]
  /\ UNCHANGED <<job, calls, up, crashes, nextId, clock>>

\* pcs at which a termination can interrupt a deleteClipsFromDisk loop
DeletingPcs == {"clean", "preparing", "segmenting"}

\* the process is terminated: every in-flight call is gone with its tools;
\* an interrupted deleteClipsFromDisk leaves some of the files
Crash ==
  /\ up
  /\ crashes < MaxCrashes
  /\ up' = FALSE
  /\ crashes' = crashes + 1
  /\ \E lost \in [Ids -> SUBSET Chunks] :
       /\ \A id \in Ids :
            lost[id] \subseteq (IF job[id].pc \in DeletingPcs
                                THEN disk[id].clips ELSE {})
       /\ disk' = [id \in Ids |-> [disk[id] EXCEPT !.clips = @ \ lost[id]]]
  /\ job' = [id \in Ids |-> IdleJob]
  /\ calls' = [id \in Ids |->
                 IF job[id].pc # "idle"
                 THEN WithLast(calls[id], [Cur(id) EXCEPT !.outcome = "crashed"])
                 ELSE calls[id]]
  /\ UNCHANGED <<db, nextId, clock, reply>>

(* ------------------ termination inside a store call ------------------ *)

\* the contents that the updateVideo about to be made by the call on id
\* would commit: the IN_PROGRESS write (regenerate entering generateClips),
\* the prepared-path write, the catch block's FAILED write, regenerate's
\* reset, the DONE write after the last probe
PendingUpdates(id) ==
  IF ~HasVideo(db, id) THEN {}
  ELSE LET pc == job[id].pc IN
  IF pc = "gen_entry" /\ ~canSkip(getVideo(db, id), disk[id])
  THEN {updateVideo(db, id, [clipState |-> "IN_PROGRESS", lastError |-> NULL]).db}
  ELSE IF pc = "prep_done"
  THEN {updateVideo(db, id, [preparedVideoPath |-> PreparedPath]).db}
  ELSE IF pc = "catch_update"
  THEN {updateVideo(db, id, [clipState |-> "FAILED", lastError |-> FfmpegFailed,
                             clips |-> <<>>]).db}
  ELSE IF pc = "regen_update"
  THEN {updateVideo(db, id, [clipState |-> "NOT_STARTED", clips |-> <<>>,
                             lastError |-> NULL]).db}
  ELSE IF pc = "probing" /\ Len(job[id].clips) + 1 = Len(job[id].files)
  THEN {updateVideo(db, id,
          [clips |-> Append(job[id].clips,
                            clipRecord(Last(job[id].files), Len(job[id].clips), m)),
           clipState |-> "DONE", lastError |-> NULL,
           lastClipGenerationTime |-> {t}]).db :
        m \in ProbeResults, t \in ElapsedTimes}
  ELSE {}

\* the contents that a createVideo or a deleteVideo made now would commit
PendingCreates ==
  IF Quiescent /\ nextId <= MaxVideos
  THEN {createVideo(db, NewRecord(nextId, clock + 1, DefaultSource))} ELSE {}

PendingDeletes ==
  {deleteVideo(db, id) : id \in {x \in Ids : Quiescent /\ HasVideo(db, x)}}

\* the process ends: no call is left, and the tools are gone with it
Terminated ==
  /\ up' = FALSE
  /\ crashes' = crashes + 1
  /\ job' = [id \in Ids |-> IdleJob]
  /\ calls' = [id \in Ids |->
                 IF job[id].pc # "idle"
                 THEN WithLast(calls[id], [Cur(id) EXCEPT !.outcome = "crashed"])
                 ELSE calls[id]]

\* the process ends inside the writeDb of an updateVideo
CrashInUpdate(id, done, cut, k) ==
  /\ up
  /\ crashes < MaxCrashes
  /\ CanRun(id)
  /\ \E post \in PendingUpdates(id) :
       /\ done <= Len(writeDb(post))
       /\ k <= Len(post)
       /\ ~cut => k = 0
       /\ db' = crashedWrite(db, post, done, cut, k)
  /\ Terminated
  /\ UNCHANGED <<disk, nextId, clock, reply>>

\* the process ends inside the writeDb of videos:createFromFile's createVideo,
\* after the directories were made
CrashInCreate(done, cut, k) ==
  /\ up
  /\ crashes < MaxCrashes
  /\ \E post \in PendingCreates :
       /\ done <= Len(writeDb(post))
       /\ k <= Len(post)
       /\ ~cut => k = 0
       /\ db' = crashedWrite(db, post, done, cut, k)
  /\ disk' = [disk EXCEPT ![nextId] = NewDisk]
  /\ nextId' = nextId + 1
  /\ clock' = clock + 1
  /\ Terminated
  /\ UNCHANGED reply

\* the process ends inside the writeDb of a deleteVideo
CrashInDelete(id, done, cut, k) ==
  /\ up
  /\ crashes < MaxCrashes
  /\ Quiescent /\ HasVideo(db, id)
  /\ LET post == deleteVideo(db, id) IN
       /\ done <= Len(writeDb(post))
       /\ k <= Len(post)
       /\ ~cut => k = 0
       /\ db' = crashedWrite(db, post, done, cut, k)
  /\ Terminated
  /\ UNCHANGED <<disk, nextId, clock, reply>>

CrashesInWrite ==
  \/ \E id \in Ids, done \in 0..2, cut \in BOOLEAN, k \in 0..MaxVideos :
       CrashInUpdate(id, done, cut, k)
  \/ \E done \in 0..2, cut \in BOOLEAN, k \in 0..MaxVideos :
       CrashInCreate(done, cut, k)
  \/ \E id \in Ids, done \in 0..2, cut \in BOOLEAN, k \in 0..MaxVideos :
       CrashInDelete(id, done, cut, k)

(* ---------------------- file-system failures ------------------------- *)

\* deleteClipsFromDisk(clipsDir) at line 143, before the try block: unlinkSync
\* throws after the files in lost were removed; nothing catches it
CleanSlateFail(id, lost) ==
  /\ CanRun(id)
  /\ job[id].pc = "clean"
  /\ disk[id].dir
  /\ lost \subseteq disk[id].clips /\ lost # disk[id].clips
  /\ disk' = [disk EXCEPT ![id].clips = @ \ lost]
  /\ SetCall(id, [Cur(id) EXCEPT !.outcome = "raised", !.error = UnlinkFailed])
  /\ job' = [job EXCEPT ![id] = IdleJob]
  /\ UNCHANGED <<db, up, crashes, nextId, clock, reply>>

\* the segmentation ffmpeg fails and the catch block's deleteClipsFromDisk
\* throws in turn: the catch block's updateVideo is not reached
CatchDeleteFail(id, lost) ==
  /\ CanRun(id)
  /\ job[id].pc = "segmenting"
  /\ disk[id].dir
  /\ lost \subseteq disk[id].clips /\ lost # disk[id].clips
  /\ disk' = [disk EXCEPT ![id].clips = @ \ lost]
  /\ SetCall(id, [Cur(id) EXCEPT !.outcome = "raised", !.error = UnlinkFailed])
  /\ job' = [job EXCEPT ![id] = IdleJob]
  /\ UNCHANGED <<db, up, crashes, nextId, clock, reply>>

\* regenerateClips' deleteClipsFromDisk throws: the call ends before its
\* updateVideo
RegenerateDeleteFail(id, precise, lost) ==
  /\ Quiescent
  /\ id < nextId
  /\ job[id].pc = "idle"
  /\ CallsMade < MaxCalls
  /\ disk[id].dir
  /\ lost \subseteq disk[id].clips /\ lost # disk[id].clips
  /\ disk' = [disk EXCEPT ![id].clips = @ \ lost]
  /\ calls' = [calls EXCEPT ![id] =
                 Append(Forget(@),
                        [NewCall("regenerate", precise, id) EXCEPT
                           !.outcome = "raised", !.error = UnlinkFailed])]
  /\ UNCHANGED <<db, job, up, crashes, nextId, clock, reply>>

FsFailures ==
  \/ \E id \in Ids, lost \in SUBSET Chunks : CleanSlateFail(id, lost)
  \/ \E id \in Ids, lost \in SUBSET Chunks : CatchDeleteFail(id, lost)
  \/ \E id \in Ids, precise \in BOOLEAN, lost \in SUBSET Chunks :
       RegenerateDeleteFail(id, precise, lost)

(* ------------------------- startup recovery --------------------------- *)

\* the sweep also emptying the clips of the records it demotes
RECURSIVE sweepFromClearsOutputs(_, _)
sweepFromClearsOutputs(d, videos) ==
  IF videos = <<>> THEN d
  ELSE LET video == Head(videos) IN
       sweepFromClearsOutputs(
         IF video.clipState = "IN_PROGRESS"
         THEN updateVideo(d, video.id,
                [clipState |-> "FAILED", lastError |-> Interrupted,
                 clips |-> <<>>]).db
         ELSE d,
         Tail(videos))

RECURSIVE sweepFrom(_, _)
sweepFrom(d, videos) ==
  IF videos = <<>> THEN d
  ELSE LET video == Head(videos) IN
       sweepFrom(IF video.clipState = "IN_PROGRESS"
                 THEN updateVideo(d, video.id,
                        [clipState |-> "FAILED", lastError |-> Interrupted]).db
                 ELSE d,
                 Tail(videos))

\* on application start, before any handler is registered
RecoverySweep ==
  /\ ~up
  /\ db' = sweepFrom(db, readDb(db))
  /\ up' = TRUE
  /\ UNCHANGED <<disk, job, calls, crashes, nextId, clock, reply>>

(* --------------------------- specification ---------------------------- *)

\* the calls, their tools, the termination of the process and its restart
Jobs ==
  \/ \E id \in Ids, precise \in BOOLEAN : GenerateCall(id, precise)
  \/ \E id \in Ids, precise \in BOOLEAN : RegenerateCall(id, precise)
  \/ \E id \in Ids : RegenerateReset(id)
  \/ \E id \in Ids : RegenerateEnter(id)
  \/ \E id \in Ids : CleanSlate(id)
  \/ \E id \in Ids : EnsureDirAndLaunch(id)
  \/ \E id \in Ids : PrepProgress(id)
  \/ \E id \in Ids : PrepSucceed(id)
  \/ \E id \in Ids : PrepFail(id)
  \/ \E id \in Ids : PrepCommit(id)
  \/ \E id \in Ids : SegWrite(id)
  \/ \E id \in Ids, t \in ElapsedTimes : SegSucceed(id, t)
  \/ \E id \in Ids : SegFail(id)
  \/ \E id \in Ids, metadata \in ProbeResults, t \in ElapsedTimes :
       ProbeReturn(id, metadata, t)
  \/ \E id \in Ids : CatchUpdate(id)
  \/ Crash
  \/ RecoverySweep

\* deletions: of a chunk file from outside, of a video by the user
Deletions ==
  \/ \E id \in Ids, f \in Chunks : ExternalDeleteClip(id, f)
  \/ \E id \in Ids : DeleteEntity(id)

Next ==
  \/ \E tick \in {0, 1} : CreateFromFile(DefaultSource, tick)
  \/ Jobs
  \/ Deletions

\* the application with any number of videos up to MaxVideos
Library == Init /\ [][Next]_vars

\* the application with one ingested video: the calls, tools, failures,
\* deletions, terminations and restarts that concern one record
OneVideoNext ==
  \/ \E tick \in {0, 1} : nextId = 1 /\ CreateFromFile(DefaultSource, tick)
  \/ Jobs
  \/ Deletions

Spec == Init /\ [][OneVideoNext]_vars

\* several videos whose calls run concurrently and are cut short by a
\* termination, with nothing deleted
RestartNext ==
  \/ \E tick \in {0, 1} : CreateFromFile(DefaultSource, tick)
  \/ Jobs

Restart == Init /\ [][RestartNext]_vars

\* one video on a file system whose unlinkSync may fail
FaultyNext ==
  \/ \E tick \in {0, 1} : nextId = 1 /\ CreateFromFile(DefaultSource, tick)
  \/ Jobs
  \/ Deletions
  \/ FsFailures

Faulty == Init /\ [][FaultyNext]_vars

\* one video whose clips directory other programs may change at any time
OutsideNext ==
  \/ \E tick \in {0, 1} : nextId = 1 /\ CreateFromFile(DefaultSource, tick)
  \/ Jobs
  \/ Deletions
  \/ \E id \in Ids, f \in Chunks : ExternalDeleteProbed(id, f)

Outside == Init /\ [][OutsideNext]_vars

\* several videos, and a process that may end inside any of the store's
\* mutating calls
DurableNext ==
  \/ \E tick \in {0, 1} : CreateFromFile(DefaultSource, tick)
  \/ Jobs
  \/ CrashesInWrite

Durable == Init /\ [][DurableNext]_vars

\* one video whose review status is set while its clip jobs run
ReviewStatuses == {"APPROVED", "REJECTED"}

ReviewNext ==
  \/ \E tick \in {0, 1} : nextId = 1 /\ CreateFromFile(DefaultSource, tick)
  \/ Jobs
  \/ \E id \in Ids, status \in ReviewStatuses : UpdateStatus(id, status)

Review == Init /\ [][ReviewNext]_vars

\* the dashboard: videos are ingested, reviewed, listed and deleted; the
\* wall clock that stamps createdAt may be set back between two ingestions
\* (tick = -1)
DashboardNext ==
  \/ \E tick \in {-1, 0, 1} : CreateFromFile(DefaultSource, tick)
  \/ \E id \in Ids, status \in ReviewStatuses : UpdateStatus(id, status)
  \/ \E id \in Ids : DeleteEntity(id)
  \/ ListVideos

Dashboard == Init /\ [][DashboardNext]_vars

\* the probing of ingested videos
ProbingNext ==
  \/ \E tick \in {0, 1} : CreateFromFile(DefaultSource, tick)
  \/ \E id \in Ids, data \in FfprobeOutputs : ExtractMetadata(id, data)

Probing == Init /\ [][ProbingNext]_vars

\* what ffprobe prints for a file recorded by a phone held upright
RotatedOutput ==
  [videoStream |-> {[side_data_list |-> {}, tags |-> {[rotate |-> {"90"}]}]}]

\* one video that is reviewed and probed while its clip jobs run, whose
\* chunk files may be removed from outside, and whose process may be
\* terminated and restarted
RecoveringNext ==
  \/ \E tick \in {0, 1} : nextId = 1 /\ CreateFromFile(DefaultSource, tick)
  \/ Jobs
  \/ \E id \in Ids, f \in Chunks : ExternalDeleteClip(id, f)
  \/ \E id \in Ids : id < nextId /\ UpdateStatus(id, "APPROVED")
  \/ \E id \in Ids : id < nextId /\ ExtractMetadata(id, RotatedOutput)

Recovering == Init /\ [][RecoveringNext]_vars

\* the continuation of the call on id that runs next: a synchronous stretch
\* of generateClips or regenerateClips, or the one that follows the exit of
\* the tool the call awaits
JobStep(id) ==
  \/ RegenerateReset(id)
  \/ RegenerateEnter(id)
  \/ CleanSlate(id)
  \/ EnsureDirAndLaunch(id)
  \/ PrepSucceed(id)
  \/ PrepFail(id)
  \/ PrepCommit(id)
  \/ \E t \in ElapsedTimes : SegSucceed(id, t)
  \/ SegFail(id)
  \/ \E metadata \in ProbeResults, t \in ElapsedTimes : ProbeReturn(id, metadata, t)
  \/ CatchUpdate(id)

\* one video, a process that may end at any point of a call or inside a
\* store write, and tools that exit: the event loop runs the continuation of
\* every call whose tool has exited
RecoveryNext ==
  \/ \E tick \in {0, 1} : nextId = 1 /\ CreateFromFile(DefaultSource, tick)
  \/ Jobs
  \/ CrashesInWrite

Recovery ==
  /\ Init
  /\ [][RecoveryNext]_vars
  /\ \A id \in Ids : WF_vars(JobStep(id))

\* a record of a video that no request of this run names, written by the
\* first version of the store
Bystander ==
  [NewRecord(0, 0, DefaultSource) EXCEPT
     !.status = "REJECTED",
     !.absent = {"clips", "preparedVideoPath", "lastClipGenerationTime"}]

\* the stores of PersistedStores with the bystander's record at any place
ShelfStores ==
  UNION {{SubSeq(s, 1, k) \o <<Bystander>> \o SubSeq(s, k + 1, Len(s)) :
            k \in 0..Len(s)} : s \in PersistedStores}

\* the application started on a db.json that holds the bystander's record
\* among those of the videos that will be named
ShelfInit ==
  /\ db \in ShelfStores
  /\ disk = [id \in Ids |->
              IF HasVideo(db, id)
              THEN [dir |-> TRUE, original |-> TRUE,
                    clips |-> {getVideo(db, id).clips[k].filename :
                                 k \in DOMAIN getVideo(db, id).clips},
                    prepared |-> IF getVideo(db, id).preparedVideoPath = PreparedPath
                                 THEN "complete" ELSE "absent"]
              ELSE NoDisk]
  /\ job = [id \in Ids |-> IdleJob]
  /\ calls = [id \in Ids |-> <<>>]
  /\ up = TRUE
  /\ crashes = 0
  /\ nextId = Len(db)
  /\ clock = Len(db)
  /\ reply = NoReply

\* the store's mutating handlers: ingestion, review, probing, deletion
ShelfNext ==
  \/ \E tick \in {0, 1} : CreateFromFile(DefaultSource, tick)
  \/ \E id \in Ids, status \in ReviewStatuses : UpdateStatus(id, status)
  \/ \E id \in Ids : ExtractMetadata(id, RotatedOutput)
  \/ \E id \in Ids : DeleteEntity(id)

Shelf == ShelfInit /\ [][ShelfNext]_vars

\* the store's handlers on a db.json of any age
StoreNext ==
  \/ \E sourcePath \in SourcePaths, tick \in {0, 1} :
       CreateFromFile(sourcePath, tick)
  \/ \E id \in Ids, status \in ReviewStatuses : UpdateStatus(id, status)
  \/ \E id \in Ids : GetVideo(id)

Store == StoreInit /\ [][StoreNext]_vars

(* ------------------------------ claims -------------------------------- *)

\* this step is the entry of a new call of op on id
NewCallOn(id, op) ==
  /\ Len(calls'[id]) = Len(calls[id]) + 1
  /\ Last(calls'[id]).op = op

\* the call on id has ended in this step by raising
Raises(id) ==
  /\ calls[id] # <<>>
  /\ Cur(id).outcome = "running"
  /\ Len(calls'[id]) = Len(calls[id])
  /\ Last(calls'[id]).outcome = "raised"

\* this step is the Recovery Sweep of a starting process
SweepStep == ~up /\ up'

Finished(c) == c.outcome \in {"returned", "raised"}

\* this step is answered by the handler of channel
Answered(channel) ==
  /\ reply'.channel = channel
  /\ reply.channel = channel => reply' # reply

\* C1: a generate call on a record that is DONE with all its listed output
\* files on disk returns exactly the record's outputs with elapsed time 0,
\* invokes no tool, and leaves the store and the disk unchanged
C1_Idempotent ==
  [][\A id \in Ids :
       (/\ NewCallOn(id, "generate")
        /\ HasVideo(db, id)
        /\ getVideo(db, id).clipState = "DONE"
        /\ allExist(getVideo(db, id), disk[id]))
       => LET c == Last(calls'[id]) IN
          /\ c.outcome = "returned"
          /\ c.ret = getVideo(db, id).clips
          /\ c.elapsed = {0}
          /\ c.prep = 0 /\ c.seg = 0 /\ c.probe = 0
          /\ db' = db
          /\ disk' = disk]_vars

\* a generate call made on a DONE record of which a listed output file was
\* missing from the disk
StaleCall(c) ==
  c.op = "generate" /\ c.preState = "DONE" /\ c.preListed /\ ~c.preExist

\* the entry of a stale call commits IN_PROGRESS and does not return; the
\* output files that remained are deleted before any tool is launched
StaleCallRegenerates ==
  /\ [][\A id \in Ids :
          (NewCallOn(id, "generate") /\ StaleCall(Last(calls'[id])))
          => /\ Last(calls'[id]).outcome = "running"
             /\ job'[id].pc = "clean"
             /\ getVideo(db', id).clipState = "IN_PROGRESS"
             /\ getVideo(db', id).lastError = NULL]_vars
  /\ [](\A id \in Ids :
          (calls[id] # <<>> /\ StaleCall(Cur(id)) /\ job[id].pc = "mkdir")
          => disk[id].clips = {})

\* C2 (as stated): a generate call on a DONE record with a listed output
\* file missing does not return the stored outputs: it commits IN_PROGRESS,
\* deletes the remaining output files, and invokes the segmentation tool
C2_StaleCallSegments ==
  /\ StaleCallRegenerates
  /\ [](\A id \in Ids :
          (calls[id] # <<>> /\ StaleCall(Cur(id)) /\ Finished(Cur(id)))
          => Cur(id).seg >= 1)

\* C2 (amended): a generate call on a DONE record with a listed output file
\* missing does not return the stored outputs: it commits IN_PROGRESS,
\* deletes the remaining output files, and invokes the transcode tool; it
\* ends without having invoked the segmentation tool only by raising after
\* the preparation step of precise mode failed
C2_StaleCallRunsTool ==
  /\ StaleCallRegenerates
  /\ [](\A id \in Ids :
          (calls[id] # <<>> /\ StaleCall(Cur(id)) /\ Finished(Cur(id)))
          => /\ Cur(id).prep + Cur(id).seg >= 1
             /\ \/ Cur(id).seg >= 1
                \/ /\ Cur(id).outcome = "raised"
                   /\ Cur(id).precise
                   /\ Cur(id).prep = 1)

\* a stale call that went through segmentation and returned
C2_Witness ==
  \E id \in Ids :
    /\ calls[id] # <<>>
    /\ StaleCall(Cur(id))
    /\ Cur(id).outcome = "returned"
    /\ Cur(id).seg = 1

\* C3: when a generate call whose transcode tool (preparation or
\* segmentation) failed raises, the persisted record has no outputs, is
\* FAILED with a non-null lastError, and the output directory holds no
\* chunk file
C3_RollbackOnToolFailure ==
  [][\A id \in Ids :
       (Raises(id) /\ job[id].pc = "catch_update" /\ HasVideo(db', id))
       => /\ getVideo(db', id).clips = <<>>
          /\ getVideo(db', id).clipState = "FAILED"
          /\ getVideo(db', id).lastError # NULL
          /\ disk'[id].clips = {}]_vars

\* a call has raised after its segmentation tool failed, and the record is
\* FAILED
C3_Witness ==
  \E id \in Ids :
    /\ calls[id] # <<>>
    /\ Cur(id).outcome = "raised"
    /\ Cur(id).error = FfmpegFailed
    /\ Cur(id).seg = 1
    /\ HasVideo(db, id)
    /\ getVideo(db, id).clipState = "FAILED"

\* C4: the Recovery Sweep moves every record that is IN_PROGRESS to FAILED
\* with a non-null lastError and changes no record that is NOT_STARTED,
\* DONE or FAILED
C4_SweepDemotesInProgressOnly ==
  [][SweepStep =>
       /\ Len(db') = Len(db)
       /\ \A i \in DOMAIN db :
            LET old == readDb(db)[i]
                new == readDb(db')[i]
            IN IF old.clipState = "IN_PROGRESS"
               THEN /\ new.id = old.id
                    /\ new.clipState = "FAILED"
                    /\ new.lastError # NULL
               ELSE new = old]_vars

\* after a sweep, one record demoted by it next to a record it left DONE
C4_Witness ==
  /\ up
  /\ crashes = 1
  /\ \E i, j \in DOMAIN db :
       /\ db[i].clipState = "FAILED"
       /\ db[i].lastError = Interrupted
       /\ db[j].clipState = "DONE"

\* C5: wherever in generate or regenerate the process was terminated, no
\* record is IN_PROGRESS once the Recovery Sweep of the next process has
\* completed
C5_NoInProgressAfterSweep ==
  [][SweepStep => \A i \in DOMAIN db' : db'[i].clipState # "IN_PROGRESS"]_vars

\* a regenerate call was cut by a termination after it had committed
\* IN_PROGRESS, and the sweep has run
C5_Witness ==
  /\ up
  /\ \E id \in Ids :
       /\ calls[id] # <<>>
       /\ Cur(id).op = "regenerate"
       /\ Cur(id).outcome = "crashed"
       /\ HasVideo(db, id)
       /\ getVideo(db, id).lastError = Interrupted

\* C6: a regenerate call on a record that is DONE with all its output files
\* on disk, where a generate call would have returned at the idempotency
\* check, invokes the transcode tool at least once before it ends
C6_RegenerateRunsTool ==
  \A id \in Ids :
    (/\ calls[id] # <<>>
     /\ Cur(id).op = "regenerate"
     /\ Cur(id).preState = "DONE"
     /\ Cur(id).preExist
     /\ Finished(Cur(id)))
    => Cur(id).prep + Cur(id).seg >= 1

\* a regenerate call on a record that a generate call would have skipped
\* has returned
C6_Witness ==
  \E id \in Ids :
    /\ calls[id] # <<>>
    /\ Cur(id).op = "regenerate"
    /\ Cur(id).preState = "DONE" /\ Cur(id).preListed /\ Cur(id).preExist
    /\ Cur(id).outcome = "returned"
    /\ Cur(id).seg = 1

\* the first two calls on id are generate calls in precise mode, both of
\* which returned (the first one found no prepared artifact: none exists
\* before the first call)
TwoPreciseCalls(id) ==
  /\ Len(calls[id]) = 2
  /\ \A k \in 1..2 :
       /\ calls[id][k].op = "generate"
       /\ calls[id][k].precise
       /\ calls[id][k].outcome = "returned"

\* preparedVideoPath is set once the first precise call has returned
PreparedPathKept(id) ==
  (/\ calls[id] # <<>>
   /\ \A k \in DOMAIN calls[id] :
        calls[id][k].op = "generate" /\ calls[id][k].precise
   /\ calls[id][1].outcome = "returned"
   /\ HasVideo(db, id))
  => getVideo(db, id).preparedVideoPath = PreparedPath

\* C7 (as stated): two successive generate(id, precise) calls cause exactly
\* one preparation-tool invocation and two segmentation-tool invocations;
\* preparedVideoPath is set after the first call and unchanged after the
\* second
C7_OnePrepTwoSegments ==
  \A id \in Ids :
    /\ PreparedPathKept(id)
    /\ TwoPreciseCalls(id)
       => /\ calls[id][1].prep + calls[id][2].prep = 1
          /\ calls[id][1].seg + calls[id][2].seg = 2

\* C7 (amended): two successive generate(id, precise) calls cause exactly
\* one preparation-tool invocation, in the first call, and one segmentation
\* in the first call; the second call segments once more unless it returns
\* at the idempotency check, so there are one or two segmentations;
\* preparedVideoPath is set after the first call and unchanged after the
\* second
C7_OnePrepOneOrTwoSegments ==
  \A id \in Ids :
    /\ PreparedPathKept(id)
    /\ TwoPreciseCalls(id)
       => /\ calls[id][1].prep = 1 /\ calls[id][2].prep = 0
          /\ calls[id][1].seg = 1
          /\ calls[id][2].seg =
               IF calls[id][2].preState = "DONE" /\ calls[id][2].preListed
                  /\ calls[id][2].preExist
               THEN 0 ELSE 1

\* two precise calls have returned, the second after segmenting again
C7_Witness ==
  \E id \in Ids :
    /\ TwoPreciseCalls(id)
    /\ calls[id][2].seg = 1
    /\ HasVideo(db, id)
    /\ getVideo(db, id).preparedVideoPath = PreparedPath

\* the clipState changes of the records that this step keeps
Transitions ==
  {<<getVideo(db, id).clipState, getVideo(db', id).clipState>> :
     id \in {x \in Ids : HasVideo(db, x) /\ HasVideo(db', x)}}
  \ {<<st, st>> : st \in {"NOT_STARTED", "IN_PROGRESS", "DONE", "FAILED"}}

\* a record that this step adds to the store is NOT_STARTED
StartsNotStarted ==
  \A id \in Ids :
    (~HasVideo(db, id) /\ HasVideo(db', id))
    => getVideo(db', id).clipState = "NOT_STARTED"

\* a change to NOT_STARTED is made by the reset of a regenerate call
ResetOnlyInRegenerate ==
  \A id \in Ids :
    (/\ HasVideo(db, id) /\ HasVideo(db', id)
     /\ getVideo(db, id).clipState # "NOT_STARTED"
     /\ getVideo(db', id).clipState = "NOT_STARTED")
    => /\ job[id].pc = "regen_update"
       /\ Cur(id).op = "regenerate"

\* C8 (as stated): every change of a record's clipState is one of
\* NOT_STARTED -> IN_PROGRESS, IN_PROGRESS -> DONE, IN_PROGRESS -> FAILED,
\* FAILED -> IN_PROGRESS, DONE -> NOT_STARTED, the last one only inside a
\* regenerate call; records start in NOT_STARTED
C8_ListedTransitions ==
  [][/\ Transitions \subseteq
          {<<"NOT_STARTED", "IN_PROGRESS">>, <<"IN_PROGRESS", "DONE">>,
           <<"IN_PROGRESS", "FAILED">>, <<"FAILED", "IN_PROGRESS">>,
           <<"DONE", "NOT_STARTED">>}
     /\ ResetOnlyInRegenerate
     /\ StartsNotStarted]_vars

\* C8 (amended): every change of a record's clipState is one of
\* NOT_STARTED -> IN_PROGRESS, IN_PROGRESS -> DONE, IN_PROGRESS -> FAILED,
\* FAILED -> IN_PROGRESS, DONE -> IN_PROGRESS (a generate call on a DONE
\* record that does not pass the idempotency check), DONE -> NOT_STARTED or
\* FAILED -> NOT_STARTED, the last two only inside a regenerate call;
\* records start in NOT_STARTED
C8_Transitions ==
  [][/\ Transitions \subseteq
          {<<"NOT_STARTED", "IN_PROGRESS">>, <<"IN_PROGRESS", "DONE">>,
           <<"IN_PROGRESS", "FAILED">>, <<"FAILED", "IN_PROGRESS">>,
           <<"DONE", "IN_PROGRESS">>,
           <<"DONE", "NOT_STARTED">>, <<"FAILED", "NOT_STARTED">>}
     /\ ResetOnlyInRegenerate
     /\ StartsNotStarted]_vars

\* a regenerate call has reset a DONE record to NOT_STARTED
C8_Witness ==
  \E id \in Ids :
    /\ job[id].pc = "gen_entry"
    /\ Cur(id).preState = "DONE"
    /\ getVideo(db, id).clipState = "NOT_STARTED"

\* C9: in every persisted state a record that is NOT_STARTED, IN_PROGRESS
\* or FAILED lists no output
C9_OutputsOnlyWhenDone ==
  \A i \in DOMAIN db :
    readDb(db)[i].clipState # "DONE" => readDb(db)[i].clips = <<>>

\* C10: whenever a record's clipState is set to DONE, its outputs list is
\* non-empty and every listed output file is on disk
C10_DoneListsOutputs ==
  [][\A id \in Ids :
       (/\ HasVideo(db, id) /\ HasVideo(db', id)
        /\ getVideo(db, id).clipState # "DONE"
        /\ getVideo(db', id).clipState = "DONE")
       => /\ getVideo(db', id).clips # <<>>
          /\ allExist(getVideo(db', id), disk'[id])]_vars

\* C11: in every persisted state a FAILED record (failed by a generate call
\* or by the Recovery Sweep) has a non-null lastError, and a record whose
\* attempt has begun (IN_PROGRESS) or that was reset (NOT_STARTED) has a
\* null lastError
C11_LastErrorTracksState ==
  \A i \in DOMAIN db :
    LET video == readDb(db)[i] IN
    /\ video.clipState = "FAILED" => video.lastError # NULL
    /\ video.clipState \in {"IN_PROGRESS", "NOT_STARTED"} => video.lastError = NULL

\* a new attempt has begun on a record that a failed call had left FAILED
C11_Witness ==
  \E id \in Ids :
    /\ Len(calls[id]) = 2
    /\ calls[id][1].outcome = "raised"
    /\ calls[id][1].error = FfmpegFailed
    /\ HasVideo(db, id)
    /\ getVideo(db, id).clipState = "IN_PROGRESS"
    /\ getVideo(db, id).lastError = NULL

\* the pcs of generateClips after its IN_PROGRESS commit: clean-slate
\* deletion, directory creation, preparation, segmentation, enumeration and
\* probing, and the catch block
AttemptPcs ==
  {"clean", "mkdir", "preparing", "prep_done", "segmenting", "probing",
   "catch_update"}

\* C12: when a generate call raises because of any failure after its
\* IN_PROGRESS commit (clean-slate deletion, directory creation, preparation,
\* segmentation, enumeration or probing), the output directory holds no chunk
\* file and the record is FAILED with no outputs and a non-null lastError; it
\* is not left IN_PROGRESS
C12_RollbackOnAnyFailure ==
  [][\A id \in Ids :
       (Raises(id) /\ job[id].pc \in AttemptPcs /\ HasVideo(db', id))
       => /\ getVideo(db', id).clipState = "FAILED"
          /\ getVideo(db', id).clips = <<>>
          /\ getVideo(db', id).lastError # NULL
          /\ disk'[id].clips = {}]_vars

\* the contents that the store calls which may be executing would commit
PendingPosts ==
  PendingCreates \cup PendingDeletes
  \cup UNION {PendingUpdates(id) : id \in {x \in Ids : CanRun(x)}}

\* C13: when the process ends at any point inside a createVideo, updateVideo
\* or deleteVideo, the next read of the store returns either the complete
\* contents from before the call or the complete contents the call was
\* committing, and the file is never torn
C13_CrashSafeCommit ==
  [][(up /\ ~up')
     => /\ parses(db')
        /\ \/ readDb(db') = readDb(db)
           \/ \E post \in PendingPosts : readDb(db') = readDb(post)]_vars

\* the process ended inside the catch block's updateVideo after its rename:
\* the call never raised, and the store holds the FAILED record
C13_Witness ==
  /\ ~up
  /\ \E id \in Ids :
       /\ calls[id] # <<>>
       /\ Cur(id).outcome = "crashed"
       /\ HasVideo(db, id)
       /\ getVideo(db, id).clipState = "FAILED"
       /\ getVideo(db, id).lastError = FfmpegFailed

\* the partial records that the application passes to updateVideo
IssuedUpdates ==
  {[status |-> "APPROVED"]}
  \cup {[metadata |-> {[rotation |-> {"90°"}]}]}
  \cup {[clipState |-> "IN_PROGRESS", lastError |-> NULL]}
  \cup {[preparedVideoPath |-> PreparedPath]}
  \cup {[clipState |-> "FAILED", lastError |-> FfmpegFailed, clips |-> <<>>]}
  \cup {[clipState |-> "NOT_STARTED", clips |-> <<>>, lastError |-> NULL]}
  \cup {[clips |-> <<clipRecord(0, 0, m)>>, clipState |-> "DONE",
         lastError |-> NULL, lastClipGenerationTime |-> {1}] : m \in ProbeResults}

\* new is old with exactly the fields of updates replaced
UpdatedBy(old, new, updates) ==
  /\ new.id = old.id
  /\ \A f \in DOMAIN old \ {"absent"} :
       new[f] = IF f \in DOMAIN updates THEN updates[f] ELSE old[f]

\* C14: an update of an existing record leaves its id and every field that
\* the update does not name as they were read before, and gives the named
\* fields the new values
C14_UpdatePreservesOtherFields ==
  /\ [](\A id \in Ids : HasVideo(db, id) =>
          \A u \in IssuedUpdates :
            /\ updateVideo(db, id, u).ok
            /\ UpdatedBy(getVideo(db, id),
                         getVideo(updateVideo(db, id, u).db, id), u))
  /\ [][\A id \in Ids, status \in {"APPROVED", "REJECTED"} :
          (/\ Answered("videos:updateStatus")
           /\ reply'.arg = <<id, status>>
           /\ HasVideo(db, id))
          => /\ reply'.outcome = "resolved"
             /\ UpdatedBy(getVideo(db, id), getVideo(db', id),
                          [status |-> status])]_vars

\* a status update was made on a record with a prepared path and outputs
C14_Witness ==
  \E id \in Ids :
    /\ reply.channel = "videos:updateStatus"
    /\ reply.arg = <<id, "APPROVED">>
    /\ reply.outcome = "resolved"
    /\ getVideo(db, id).status = "APPROVED"
    /\ getVideo(db, id).preparedVideoPath = PreparedPath
    /\ getVideo(db, id).clips # <<>>

\* C15: an update of an id that is not in the store fails with the
\* not-found error and commits nothing: db.json keeps its contents
C15_UpdateOfAbsentIdFails ==
  /\ [](\A id \in Ids : ~HasVideo(db, id) =>
          \A u \in IssuedUpdates :
            /\ ~updateVideo(db, id, u).ok
            /\ updateVideo(db, id, u).db = db)
  /\ [][\A id \in Ids :
          (/\ Answered("videos:updateStatus")
           /\ reply'.arg[1] = id
           /\ ~HasVideo(db, id))
          => /\ reply'.outcome = "rejected"
             /\ reply'.error = UpdateNotFound
             /\ db' = db]_vars

\* a status update of an absent id has raised next to a record of the first
\* version of the store
C15_Witness ==
  \E id \in Ids :
    /\ reply.channel = "videos:updateStatus"
    /\ reply.arg[1] = id
    /\ reply.outcome = "rejected"
    /\ ~HasVideo(db, id)
    /\ \E i \in DOMAIN db : "clips" \in db[i].absent

\* C16: every read returns each record with a missing clips as the empty
\* list, a missing preparedVideoPath and a missing lastClipGenerationTime as
\* null, and every field that the persisted record has with its value
C16_BackfillOnRead ==
  /\ Len(readDb(db)) = Len(db)
  /\ \A i \in DOMAIN db :
       LET p == db[i]
           v == readDb(db)[i]
       IN /\ v.absent = {}
          /\ "clips" \in p.absent => v.clips = <<>>
          /\ "preparedVideoPath" \in p.absent => v.preparedVideoPath = NULL
          /\ "lastClipGenerationTime" \in p.absent => v.lastClipGenerationTime = {}
          /\ \A f \in DOMAIN p \ ({"absent"} \cup p.absent) : v[f] = p[f]
  /\ \A id \in Ids :
       (calls[id] # <<>> /\ Cur(id).op = "get" /\ HasVideo(db, id))
       => Cur(id).ret = getVideo(db, id).clips

\* videos:get has returned a record of the first version of the store, with
\* the empty list for its clips
C16_Witness ==
  \E id \in Ids :
    /\ calls[id] # <<>>
    /\ Cur(id).op = "get"
    /\ HasVideo(db, id)
    /\ \E i \in DOMAIN db : db[i].id = id /\ "clips" \in db[i].absent
    /\ Cur(id).ret = <<>>

\* C17: over any sequence of generate and regenerate calls on a video, with
\* failures and terminations, preparedVideoPath only ever changes from null
\* to the path, and the write that sets it is made on a record whose
\* preparedVideoPath is null: it is set at most once and never written again
\* or reset
C17_PreparedPathSetOnce ==
  [][\A id \in Ids :
       (HasVideo(db, id) /\ HasVideo(db', id))
       => LET old == getVideo(db, id).preparedVideoPath
              new == getVideo(db', id).preparedVideoPath
          IN /\ new # old => (old = NULL /\ new = PreparedPath)
             /\ (job[id].pc = "prep_done" /\ job'[id].pc = "segmenting")
                => old = NULL]_vars

\* a second call in precise mode has finished on a record whose
\* preparedVideoPath the first call had set
C17_Witness ==
  \E id \in Ids :
    /\ Len(calls[id]) = 2
    /\ calls[id][1].precise /\ calls[id][1].prep = 1
    /\ calls[id][1].outcome = "returned"
    /\ calls[id][2].op = "regenerate" /\ calls[id][2].precise
    /\ calls[id][2].outcome = "raised"
    /\ HasVideo(db, id)
    /\ getVideo(db, id).preparedVideoPath = PreparedPath

\* the step is one of a regenerate call on id that has invoked no
\* preparation: its entry, or a later step of it
RegenerateStep(id) ==
  /\ calls'[id] # <<>>
  /\ Last(calls'[id]).op = "regenerate"
  /\ \/ NewCallOn(id, "regenerate")
     \/ job[id].pc # "idle" /\ Cur(id).prep = 0
  /\ up /\ up'
  /\ HasVideo(db, id) /\ HasVideo(db', id)

\* C18: a regenerate call does not remove prepared.mp4 and does not change
\* preparedVideoPath; in precise mode on a video whose prepared.mp4 exists
\* when it is called it invokes no preparation and segments the prepared file
C18_RegenerateKeepsPrepared ==
  [][\A id \in Ids :
       (RegenerateStep(id) /\ disk[id].prepared # "absent")
       => /\ disk'[id].prepared = disk[id].prepared
          /\ getVideo(db', id).preparedVideoPath = getVideo(db, id).preparedVideoPath
          /\ Last(calls'[id]).prep = 0
          /\ job'[id].pc # "preparing"
          /\ (job[id].pc = "mkdir" /\ job[id].precise)
             => /\ job'[id].pc = "segmenting"
                /\ Last(calls'[id]).seg = 1]_vars

\* a regenerate call in precise mode has returned after segmenting the
\* prepared file that an earlier call had made
C18_Witness ==
  \E id \in Ids :
    /\ Len(calls[id]) = 2
    /\ calls[id][1].prep = 1
    /\ Cur(id).op = "regenerate" /\ Cur(id).precise
    /\ Cur(id).outcome = "returned"
    /\ Cur(id).prep = 0 /\ Cur(id).seg = 1
    /\ disk[id].prepared = "complete"
    /\ getVideo(db, id).preparedVideoPath = PreparedPath

\* the sum of the stored durations of the first n clips
RECURSIVE SumDurations(_, _)
SumDurations(clips, n) ==
  IF n = 0 THEN 0 ELSE SumDurations(clips, n - 1) + clips[n].duration

\* C19 (as stated): the start offset of every stored chunk is the sum of the
\* durations of the chunks before it, and its end offset is its start offset
\* plus its own duration
C19_AccumulatedOffsets ==
  \A i \in DOMAIN db :
    LET clips == readDb(db)[i].clips IN
    \A k \in DOMAIN clips :
      /\ clips[k].startTime = SumDurations(clips, k - 1)
      /\ clips[k].endTime = clips[k].startTime + clips[k].duration

\* C19 (amended): the start offset of the stored chunk with index i is
\* i * 120 whatever the durations of the chunks before it, and its end offset
\* is its start offset plus its own duration
C19_IndexedOffsets ==
  \A i \in DOMAIN db :
    LET clips == readDb(db)[i].clips IN
    \A k \in DOMAIN clips :
      /\ clips[k].startTime = (k - 1) * SegmentTime
      /\ clips[k].endTime = clips[k].startTime + clips[k].duration

\* a record is DONE with two chunks of which the first was probed shorter
\* than the nominal duration
C19_Witness ==
  \E i \in DOMAIN db :
    /\ db[i].clipState = "DONE"
    /\ Len(db[i].clips) = 2
    /\ db[i].clips[1].duration < SegmentTime
    /\ db[i].clips[2].startTime = SegmentTime

\* durations that ffprobe may report for a chunk, around the nominal one
CheckedDurations == {45, 119, 120, 121}

\* C20: every chunk, with index i in name order, is stored with start offset
\* i * 120, with the duration that its probe reported (120 when the probe
\* failed), and with end offset start + duration
C20_OffsetsFromIndexAndProbe ==
  /\ \A i \in Chunks, d \in CheckedDurations :
       LET c == clipRecord(i, i, [ok |-> TRUE, duration |-> d])
           f == clipRecord(i, i, [ok |-> FALSE, duration |-> 0])
       IN /\ c.startTime = i * 120 /\ c.duration = d /\ c.endTime = i * 120 + d
          /\ f.startTime = i * 120 /\ f.duration = 120 /\ f.endTime = i * 120 + 120
  /\ \A id \in Ids :
       LET stored == IF HasVideo(db, id) THEN getVideo(db, id).clips ELSE <<>>
           Built(clips) ==
             \A k \in DOMAIN clips :
               /\ \E m \in ProbeResults :
                    clips[k] = clipRecord(clips[k].filename, k - 1, m)
               /\ clips[k].hasStreamInfo => clips[k].duration \in ProbedDurations
       IN Built(stored) /\ Built(job[id].clips)

\* a record is DONE with a chunk whose probe reported its duration and a
\* chunk whose probe failed
C20_Witness ==
  \E i \in DOMAIN db :
    /\ db[i].clipState = "DONE"
    /\ Len(db[i].clips) = 2
    /\ db[i].clips[1].hasStreamInfo /\ db[i].clips[1].duration = 45
    /\ ~db[i].clips[2].hasStreamInfo /\ db[i].clips[2].endTime = 240

\* a step of a generate or regenerate call that was made on an id with no
\* record in the store: its entry, or a later step of the running call
AbsentIdCallStep(id) ==
  /\ up'
  /\ \/ /\ NewCallOn(id, "generate") \/ NewCallOn(id, "regenerate")
        /\ ~HasVideo(db, id)
     \/ /\ calls[id] # <<>>
        /\ Cur(id).op \in {"generate", "regenerate"}
        /\ Cur(id).preState = "ABSENT"
        /\ Cur(id).outcome = "running"
        /\ job'[id] # job[id]

\* C21: a generate or regenerate call on an id that is absent from the store
\* changes neither the store nor the disk in any of its steps, and ends by
\* raising the not-found error
C21_AbsentIdNoMutation ==
  [][\A id \in Ids :
       AbsentIdCallStep(id)
       => /\ db' = db
          /\ disk' = disk
          /\ Last(calls'[id]).outcome # "running"
             => /\ Last(calls'[id]).outcome = "raised"
                /\ Last(calls'[id]).error = NotFound]_vars

\* C22: videos:createFromFile on a source path whose extension, lower-cased,
\* is not .mp4 is rejected with the validation error, and the step adds no
\* record, makes no directory, copies no file and uses up no id
C22_NonMp4Rejected ==
  [][(/\ Answered("videos:createFromFile")
      /\ toLowerCase(extname(reply'.arg)) # <<".", "m", "p", "4">>)
     => /\ reply'.outcome = "rejected"
        /\ reply'.error = InvalidFileType
        /\ db' = db
        /\ disk' = disk
        /\ nextId' = nextId]_vars

\* a.mp4.mov was rejected by a store that holds a record, after a.MP4 was
\* accepted
C22_Witness ==
  /\ reply.channel = "videos:createFromFile"
  /\ reply.outcome = "rejected"
  /\ reply.arg = <<"a", ".", "m", "p", "4", ".", "m", "o", "v">>
  /\ \E i \in DOMAIN db : db[i].originalFilename = <<"a", ".", "M", "P", "4">>

\* C23: videos:delete(id) resolves whatever the state of the record: after
\* it the store has no record of id (get(id) finds none), every other record
\* is read back as before and in the same order, and on an absent id no
\* record changes
C23_DeleteUnconditional ==
  [][\A id \in Ids :
       (Answered("videos:delete") /\ reply'.arg = <<id>>)
       => /\ reply'.outcome = "resolved"
          /\ ~HasVideo(db', id)
          /\ LET Other(v) == v.id # id
             IN readDb(db') = SelectSeq(readDb(db), Other)
          /\ ~HasVideo(db, id) => readDb(db') = readDb(db)]_vars

\* video 1 was deleted while its generate call was awaiting the segmentation
\* tool, with video 2 in the store
C23_Witness ==
  /\ reply.channel = "videos:delete"
  /\ reply.arg = <<1>>
  /\ job[1].pc = "segmenting"
  /\ ~HasVideo(db, 1)
  /\ HasVideo(db, 2)

\* C24: the review status and the job state are independent: a step that is
\* no review-status update (a step of generate, of regenerate, of the
\* Recovery Sweep) leaves the status of every record as it was; a
\* review-status update leaves clipState, clips and lastError as they were;
\* and the status last set is the record's status in every later state, the
\* states after the final write of a job that was in flight included
C24_ReviewStatusOrthogonal ==
  /\ [][\A id \in Ids :
          (/\ ~Answered("videos:updateStatus")
           /\ HasVideo(db, id) /\ HasVideo(db', id))
          => getVideo(db', id).status = getVideo(db, id).status]_vars
  /\ [][\A id \in Ids :
          (/\ Answered("videos:updateStatus")
           /\ reply'.arg[1] = id
           /\ HasVideo(db, id))
          => /\ getVideo(db', id).clipState = getVideo(db, id).clipState
             /\ getVideo(db', id).clips = getVideo(db, id).clips
             /\ getVideo(db', id).lastError = getVideo(db, id).lastError]_vars
  /\ [](\A id \in Ids :
          (/\ reply.channel = "videos:updateStatus"
           /\ reply.arg[1] = id
           /\ HasVideo(db, id))
          => getVideo(db, id).status = reply.arg[2])

\* a generate call has committed DONE after a status update was handled
\* while it was in flight, and the record is APPROVED
C24_Witness ==
  \E id \in Ids :
    /\ calls[id] # <<>>
    /\ Cur(id).reviewed
    /\ Cur(id).outcome = "returned"
    /\ HasVideo(db, id)
    /\ getVideo(db, id).clipState = "DONE"
    /\ getVideo(db, id).clips # <<>>
    /\ getVideo(db, id).status = "APPROVED"

\* the rotations carried by the entries of the stream's side_data_list, in
\* the order of the list
SideDataRotations(videoStream) ==
  LET list == IF videoStream.side_data_list = {} THEN <<>>
              ELSE CHOOSE l \in videoStream.side_data_list : TRUE
      Carries(sd) == sd.rotation # {}
  IN SelectSeq(list, Carries)

\* the stream's tags.rotate, or the empty set when there is none
RotateTag(videoStream) ==
  UNION {t.rotate : t \in videoStream.tags}

C26_ListSortedAndComplete ==
  [][Answered("videos:list")
     => LET l == reply'.value
            videos == readDb(db)
        IN /\ reply'.outcome = "resolved"
           /\ Len(l) = Len(videos)
           /\ \A i \in DOMAIN videos :
                Cardinality({j \in DOMAIN l : l[j] = videos[i]}) = 1
           /\ \A j \in 1..(Len(l) - 1) : l[j].createdAt >= l[j + 1].createdAt
           /\ db' = db]_vars

\* the list of a store of two records puts the record stored second first
C26_Witness ==
  /\ reply.channel = "videos:list"
  /\ Len(db) = 2
  /\ Len(reply.value) = 2
  /\ reply.value[1] = db[2]
  /\ reply.value[2] = db[1]
  /\ db[2].createdAt > db[1].createdAt

\* this step belongs to the generateClips run on id: its entry, directly or
\* from regenerateClips, or a step from one of its later positions
GenerateRunStep(id) ==
  \/ NewCallOn(id, "generate")
  \/ /\ job[id].pc \in {"gen_entry"} \cup AttemptPcs
     /\ job'[id] # job[id] \/ calls'[id] # calls[id]

\* this step invokes a tool (preparation, segmentation or probe) for the
\* call on id
InvokesTool(id) ==
  /\ calls[id] # <<>>
  /\ Len(calls'[id]) = Len(calls[id])
  /\ \/ Last(calls'[id]).prep > Cur(id).prep
     \/ Last(calls'[id]).seg > Cur(id).seg
     \/ Last(calls'[id]).probe > Cur(id).probe

\* C27: a generateClips run that does not take the idempotency return has
\* committed clipState IN_PROGRESS with lastError null before it invokes a
\* tool and before it deletes a chunk file: in every position after the
\* commit the record is IN_PROGRESS with a null lastError; the steps of a run
\* that invoke a tool or remove a chunk file find it so; and a termination
\* of the process at any of these positions leaves the record IN_PROGRESS
C27_InProgressCommittedFirst ==
  /\ [](\A id \in Ids :
          (job[id].pc \in AttemptPcs /\ HasVideo(db, id))
          => /\ getVideo(db, id).clipState = "IN_PROGRESS"
             /\ getVideo(db, id).lastError = NULL)
  /\ [][\A id \in Ids :
          (/\ GenerateRunStep(id)
           /\ HasVideo(db, id)
           /\ InvokesTool(id) \/ ~(disk[id].clips \subseteq disk'[id].clips))
          => /\ getVideo(db, id).clipState = "IN_PROGRESS"
             /\ getVideo(db, id).lastError = NULL]_vars
  /\ [][\A id \in Ids :
          (up /\ ~up' /\ job[id].pc \in AttemptPcs /\ HasVideo(db, id))
          => /\ HasVideo(db', id)
             /\ getVideo(db', id).clipState = "IN_PROGRESS"]_vars

\* the process was terminated while the segmentation tool of a retry was
\* running, after the clean slate had removed the chunk file of the first
\* attempt: the record is IN_PROGRESS
C27_Witness ==
  \E id \in Ids :
    /\ ~up
    /\ Len(calls[id]) = 2
    /\ calls[id][1].seg = 1
    /\ Cur(id).outcome = "crashed"
    /\ Cur(id).seg = 1
    /\ HasVideo(db, id)
    /\ getVideo(db, id).clipState = "IN_PROGRESS"
    /\ getVideo(db, id).lastError = NULL

\* clips is the list that the run on id has produced when its last probe
\* settles (or when the scan found no file): one clip per scanned file, in
\* the order of the scan, the clips already pushed first
CompleteList(id, clips) ==
  LET files == IF job[id].pc = "probing" THEN job[id].files
               ELSE SortedSeq(disk[id].clips)
  IN /\ job[id].pc \in {"segmenting", "probing"}
     /\ Len(clips) = Len(files)
     /\ \A k \in DOMAIN clips :
          /\ clips[k].filename = files[k]
          /\ \E m \in ProbeResults : clips[k] = clipRecord(files[k], k - 1, m)
          /\ job[id].pc = "probing" /\ k <= Len(job[id].clips)
             => clips[k] = job[id].clips[k]

\* C28: a record becomes DONE only in the step that also writes the complete
\* list of the run's clips, a null lastError and the generation time; and as
\* long as the record stays DONE its list is not changed, by any step, a
\* termination of the process inside a store write included
C28_DoneWithCompleteList ==
  [][\A id \in Ids :
       (HasVideo(db', id) /\ getVideo(db', id).clipState = "DONE")
       => IF HasVideo(db, id) /\ getVideo(db, id).clipState = "DONE"
          THEN getVideo(db', id).clips = getVideo(db, id).clips
          ELSE /\ CompleteList(id, getVideo(db', id).clips)
               /\ getVideo(db', id).lastError = NULL
               /\ getVideo(db', id).lastClipGenerationTime # {}]_vars

\* the process ended inside the DONE write of a run of two chunks, after the
\* rename: the record is DONE with both clips
C28_Witness ==
  \E id \in Ids :
    /\ ~up
    /\ calls[id] # <<>>
    /\ Cur(id).outcome = "crashed"
    /\ Cur(id).probe = 2
    /\ HasVideo(db, id)
    /\ getVideo(db, id).clipState = "DONE"
    /\ Len(getVideo(db, id).clips) = 2

\* this step launches the segmentation tool for the call on id
InvokesSegmentation(id) ==
  /\ calls[id] # <<>>
  /\ Len(calls'[id]) = Len(calls[id])
  /\ Last(calls'[id]).seg > Cur(id).seg

\* C29: when the segmentation tool is launched for a video, on a first
\* attempt, a retry of a FAILED record, a retry after a termination and the
\* sweep, or from regenerate, the clips directory exists and holds no chunk
\* file, before and after the launching step
C29_SegmentationStartsClean ==
  [][\A id \in Ids :
       InvokesSegmentation(id)
       => /\ disk'[id].dir
          /\ disk'[id].clips = {}
          /\ disk[id].clips = {}]_vars

\* the segmentation tool runs on an empty directory for a retry of a record
\* that the sweep had failed, called when the directory held a chunk file of
\* the terminated attempt
C29_Witness ==
  \E id \in Ids :
    /\ Len(calls[id]) = 2
    /\ calls[id][1].outcome = "crashed"
    /\ Cur(id).op = "generate"
    /\ Cur(id).preState = "FAILED"
    /\ Cur(id).preFiles
    /\ Cur(id).seg = 1
    /\ job[id].pc = "segmenting"
    /\ disk[id].dir
    /\ disk[id].clips = {}

\* C30: a probe that settles for a call on a stored record never sends the
\* call to its catch block: the clip is pushed, with duration 120 and
\* endTime = startTime + 120 and neither fps nor resolution when the probe
\* failed, and the call goes on to the next probe or returns with the record
\* DONE
C30_ProbeFailureTolerated ==
  [][\A id \in Ids :
       (/\ up /\ up'
        /\ job[id].pc = "probing"
        /\ job'[id] # job[id]
        /\ HasVideo(db, id))
       => /\ job'[id].pc \in {"probing", "idle"}
          /\ job'[id].pc = "probing"
             => LET clip == Last(job'[id].clips)
                IN ~clip.hasStreamInfo
                   => /\ clip.duration = SegmentTime
                      /\ clip.endTime = clip.startTime + SegmentTime
          /\ job'[id].pc = "idle"
             => /\ Last(calls'[id]).outcome = "returned"
                /\ getVideo(db', id).clipState = "DONE"
                /\ LET clip == Last(getVideo(db', id).clips)
                   IN ~clip.hasStreamInfo
                      => /\ clip.duration = SegmentTime
                         /\ clip.endTime = clip.startTime + SegmentTime]_vars

\* C31: the Recovery Sweep changes nothing but clipState and lastError of the
\* records it demotes: their clips, preparedVideoPath, status, metadata and
\* every other field are read back as they were persisted, the store keeps
\* its records in their order, and no file or directory on disk is touched
C31_SweepTouchesStateAndErrorOnly ==
  [][SweepStep =>
       /\ disk' = disk
       /\ Len(db') = Len(db)
       /\ \A i \in DOMAIN db :
            LET old == readDb(db)[i]
                new == readDb(db')[i]
            IN old.clipState = "IN_PROGRESS"
               => \A f \in DOMAIN old \ {"clipState", "lastError"} :
                    new[f] = old[f]]_vars

\* the sweep has demoted an approved, probed record that still lists the
\* outputs of an earlier run and has a prepared path, and the chunk file
\* that the terminated run had written is still on disk
C31_Witness ==
  /\ up
  /\ crashes = 1
  /\ \E id \in Ids :
       /\ HasVideo(db, id)
       /\ getVideo(db, id).clipState = "FAILED"
       /\ getVideo(db, id).lastError = Interrupted
       /\ getVideo(db, id).clips # <<>>
       /\ getVideo(db, id).preparedVideoPath = PreparedPath
       /\ getVideo(db, id).status = "APPROVED"
       /\ getVideo(db, id).metadata # {}
       /\ disk[id].clips # {}

\* C32: lastClipGenerationTime is written only by the final write of a run
\* that succeeds, with the elapsed time that the call returns: a generate
\* call that returns at the idempotency check reports elapsed 0 and writes
\* nothing, and a call that raises, the reset of a regenerate call and the
\* Recovery Sweep leave the value as it was
C32_GenerationTimeOnlyBySuccess ==
  [][\A id \in Ids :
       (HasVideo(db, id) /\ HasVideo(db', id))
       => LET old == getVideo(db, id).lastClipGenerationTime
              new == getVideo(db', id).lastClipGenerationTime
          IN /\ new # old
                => /\ job[id].pc \in {"segmenting", "probing"}
                   /\ Last(calls'[id]).outcome = "returned"
                   /\ Last(calls'[id]).elapsed = new
                   /\ getVideo(db', id).clipState = "DONE"
             /\ (NewCallOn(id, "generate") /\ Last(calls'[id]).outcome = "returned")
                => /\ Last(calls'[id]).elapsed = {0}
                   /\ db' = db
             /\ (Raises(id) \/ job[id].pc = "regen_update" \/ SweepStep)
                => new = old]_vars

\* a generate call has raised on a record that an earlier run had
\* completed, and the record, now FAILED, keeps the time of that run
C32_Witness ==
  \E id \in Ids :
    /\ Len(calls[id]) = 2
    /\ calls[id][1].outcome = "returned"
    /\ calls[id][1].seg = 1
    /\ Cur(id).outcome = "raised"
    /\ Cur(id).error = FfmpegFailed
    /\ HasVideo(db, id)
    /\ getVideo(db, id).clipState = "FAILED"
    /\ getVideo(db, id).lastClipGenerationTime = {1}

\* this step of a precise-mode call on id launches the segmentation tool
\* without the call having prepared: the preparation step was skipped
SkipsPreparation(id) ==
  /\ InvokesSegmentation(id)
  /\ Cur(id).precise
  /\ Cur(id).prep = 0

\* C33: a precise-mode call skips the preparation step only when
\* prepared.mp4 was produced completely, and then the record's
\* preparedVideoPath is not null; the file that a precise-mode call hands to
\* the segmentation tool is never one that a failed or terminated
\* preparation left partially written
C33_PrepSkippedOnlyWhenComplete ==
  [][\A id \in Ids :
       /\ (InvokesSegmentation(id) /\ Cur(id).precise)
          => disk[id].prepared = "complete"
       /\ (SkipsPreparation(id) /\ HasVideo(db, id))
          => getVideo(db, id).preparedVideoPath # NULL]_vars

\* the latest call of the history cs is a generate call on a stored record,
\* and the call before it was cut by the termination of the process
PostRecoveryCall(cs) ==
  /\ Len(cs) >= 2
  /\ cs[Len(cs) - 1].outcome = "crashed"
  /\ Last(cs).op = "generate"
  /\ Last(cs).preState # "ABSENT"

\* the latest call on id has not ended
Running(id) == calls[id] # <<>> /\ Cur(id).outcome = "running"

\* C34: after the process was terminated at any point of a generate or
\* regenerate call and the Recovery Sweep has run, a generate call on the
\* video (1) launches the segmentation tool on a directory with no chunk
\* file, (2) goes to its catch block only when a tool fails, (3) when it
\* returns, leaves the record DONE with a clips list that names exactly the
\* chunk files of the directory and is the list returned, and (4) does end
\* once its tools have exited
C34_RecoveredRunCompletes ==
  /\ [][\A id \in Ids :
          (PostRecoveryCall(calls[id]) /\ InvokesSegmentation(id))
          => disk[id].clips = {}]_vars
  /\ [][\A id \in Ids :
          (/\ PostRecoveryCall(calls[id])
           /\ job[id].pc # "catch_update"
           /\ job'[id].pc = "catch_update")
          => /\ job[id].pc \in {"preparing", "segmenting"}
             /\ disk[id].dir
             /\ HasVideo(db, id)]_vars
  /\ [][\A id \in Ids :
          (/\ PostRecoveryCall(calls'[id])
           /\ Last(calls'[id]).outcome = "returned"
           /\ calls'[id] # calls[id])
          => /\ HasVideo(db', id)
             /\ getVideo(db', id).clipState = "DONE"
             /\ getVideo(db', id).lastError = NULL
             /\ {getVideo(db', id).clips[k].filename :
                   k \in DOMAIN getVideo(db', id).clips} = disk'[id].clips
             /\ Last(calls'[id]).ret = getVideo(db', id).clips]_vars
  /\ \A id \in Ids :
       (PostRecoveryCall(calls[id]) /\ Running(id)) ~> ~Running(id)

\* a generate call made after a termination that had left a chunk file in
\* the directory has segmented and returned, and the record is DONE with
\* outputs
C34_Witness ==
  \E id \in Ids :
    /\ PostRecoveryCall(calls[id])
    /\ Cur(id).preFiles
    /\ Cur(id).preState = "FAILED"
    /\ Cur(id).outcome = "returned"
    /\ Cur(id).seg = 1
    /\ HasVideo(db, id)
    /\ getVideo(db, id).clipState = "DONE"
    /\ getVideo(db, id).clips # <<>>

\* what the final write of the finished call c has put in its record: the
\* returned list with DONE, or FAILED with the error and no clips
HoldsFinalWrite(video, c) ==
  /\ c.outcome = "returned"
     => /\ video.clipState = "DONE"
        /\ video.clips = c.ret
        /\ video.lastError = NULL
        /\ c.elapsed # {0} => video.lastClipGenerationTime = c.elapsed
  /\ (c.outcome = "raised" /\ c.error = FfmpegFailed)
     => /\ video.clipState = "FAILED"
        /\ video.clips = <<>>
        /\ video.lastError = FfmpegFailed

\* C35: with calls on two videos in flight in one process, interleaved at
\* every await, a step of the call on one video leaves the record of every
\* other video as it was read before the step, the calls of the other
\* videos where they were, and the store with the same records in the same
\* order; and once a call has ended its record holds what its final write
\* put there, whatever the other call has written since
C35_ConcurrentJobsKeepOwnWrites ==
  /\ [][\A a \in Ids :
          (up /\ up' /\ job'[a] # job[a])
          => /\ Len(db') = Len(db)
             /\ \A i \in DOMAIN db : readDb(db')[i].id = readDb(db)[i].id
             /\ \A b \in Ids \ {a} :
                  /\ job'[b] = job[b]
                  /\ HasVideo(db, b) => getVideo(db', b) = getVideo(db, b)]_vars
  /\ [](\A id \in Ids :
          (calls[id] # <<>> /\ job[id].pc = "idle" /\ HasVideo(db, id))
          => HoldsFinalWrite(getVideo(db, id), Cur(id)))

\* two calls are in flight: one awaits the probe of its second chunk, the
\* other, in precise mode, has written its prepared path and awaits the
\* segmentation tool; both records are IN_PROGRESS, each with its own call's
\* writes
C35_Witness ==
  \E a, b \in Ids :
    /\ a # b
    /\ up
    /\ job[a].pc = "probing"
    /\ Len(job[a].clips) = 1
    /\ job[b].pc = "segmenting"
    /\ Cur(b).prep = 1
    /\ getVideo(db, a).clipState = "IN_PROGRESS"
    /\ getVideo(db, b).clipState = "IN_PROGRESS"
    /\ getVideo(db, b).preparedVideoPath = PreparedPath
    /\ getVideo(db, a).preparedVideoPath = NULL

\* C36: a record deleted while a generate or regenerate call on it is in
\* flight is not created again: no step of the call, on its success path or
\* in its catch block, puts a record of the id in the store, none of the
\* updates the calls issue would, and the call ends by raising, with get(id)
\* finding no record
C36_DeletedRecordStaysDeleted ==
  /\ [](\A id \in Ids : ~HasVideo(db, id) =>
          \A u \in IssuedUpdates :
            /\ ~updateVideo(db, id, u).ok
            /\ ~HasVideo(updateVideo(db, id, u).db, id))
  /\ [][\A id \in Ids :
          (job[id].pc # "idle" /\ ~HasVideo(db, id))
          => /\ ~HasVideo(db', id)
             /\ (up' /\ job'[id].pc = "idle")
                => Last(calls'[id]).outcome = "raised"]_vars

\* a generate call whose record was deleted while it awaited the
\* segmentation tool has raised, and the store has no record of the id
C36_Witness ==
  \E id \in Ids :
    /\ calls[id] # <<>>
    /\ Cur(id).op = "generate"
    /\ Cur(id).preState # "ABSENT"
    /\ Cur(id).seg = 1
    /\ Cur(id).outcome = "raised"
    /\ Cur(id).error = NotFound
    /\ reply.channel = "videos:delete"
    /\ reply.arg = <<id>>
    /\ ~HasVideo(db, id)

\* C37: a generateClips run on a stored record, called directly or from
\* regenerateClips, ends in the running process either by returning or by
\* raising an error; when it returns, the record is DONE and its clips are
\* the list returned; when it raises, whatever failed (a tool, the directory
\* scan, a probe's stat, an unlink, the record having been deleted), the
\* record, if there still is one, is not DONE
C37_ReturnsIffDone ==
  [][\A id \in Ids :
       (/\ GenerateRunStep(id)
        /\ up'
        /\ job'[id].pc = "idle"
        /\ Last(calls'[id]).preState # "ABSENT")
       => LET c == Last(calls'[id]) IN
          /\ c.outcome \in {"returned", "raised"}
          /\ c.outcome = "returned"
             => /\ HasVideo(db', id)
                /\ getVideo(db', id).clipState = "DONE"
                /\ getVideo(db', id).clips = c.ret
          /\ c.outcome = "raised"
             => /\ c.error # NULL
                /\ HasVideo(db', id) => getVideo(db', id).clipState # "DONE"]_vars

\* a generate call on a DONE record with a chunk file missing has raised
\* because the clean-slate unlink failed: the record is IN_PROGRESS, not DONE
C37_Witness ==
  \E id \in Ids :
    /\ calls[id] # <<>>
    /\ Cur(id).op = "generate"
    /\ Cur(id).preState = "DONE"
    /\ Cur(id).outcome = "raised"
    /\ Cur(id).error = UnlinkFailed
    /\ HasVideo(db, id)
    /\ getVideo(db, id).clipState = "IN_PROGRESS"

\* the records of the store d, as read, without those of id
Others(d, id) ==
  LET Other(v) == v.id # id IN SelectSeq(readDb(d), Other)

\* the number of records of id in the store d
Copies(d, id) == Cardinality({i \in DOMAIN d : readDb(d)[i].id = id})

\* C38: a create, an update and a delete of one record leave the other
\* records, as read, with every field and in their order: the store after a
\* create is the store before it followed by the new record; after an
\* update it has the same records of every id in the same places; after a
\* delete it is the store before it without the record deleted; a rejected
\* request leaves db.json as it was
C38_OtherRecordsUntouched ==
  /\ [][\A id \in Ids :
          (Answered("videos:createFromFile") /\ reply'.value = {id})
          => /\ Others(db', id) = readDb(db)
             /\ Len(db') = Len(db) + 1
             /\ readDb(db')[Len(db')].id = id]_vars
  /\ [][\A id \in Ids :
          (/\ Answered("videos:updateStatus") \/ Answered("videos:extractMetadata")
           /\ reply'.arg[1] = id)
          => /\ Others(db', id) = Others(db, id)
             /\ Len(db') = Len(db)
             /\ \A i \in DOMAIN db : readDb(db')[i].id = readDb(db)[i].id
             /\ reply'.outcome = "rejected" => db' = db]_vars
  /\ [][\A id \in Ids :
          (Answered("videos:delete") /\ reply'.arg = <<id>>)
          => /\ Others(db', id) = Others(db, id)
             /\ readDb(db') = Others(db, id)]_vars
  /\ [](\A id \in Ids : Copies(db, id) <= 1)

\* record 1 was deleted from between the bystander's record and record 2,
\* which are read as before the deletion
C38_Witness ==
  /\ reply.channel = "videos:delete"
  /\ reply.arg = <<1>>
  /\ Len(db) = 2
  /\ readDb(db)[1] = Backfill(Bystander)
  /\ db[2].id = 2
  /\ db[2].clipState = "DONE"

====
